---- MODULE Spec2Model ----
(***************************************************************************)
(* Model of the Slam Engine layout generator, src/src/game/map_generator.   *)
(* A MapGenerator object is a record; each private step of generate() is a *)
(* pure operator on that record and an action of the state machine.        *)
(***************************************************************************)
EXTENDS Integers, Sequences, FiniteSets, TLC

\* ------------------------------------------------------------------ bounds
\* Number of raw outputs of the modelled random engine before it cycles;
\* every binary stream of this length is the stream of some seed.
TapeBits == 8
\* Largest smoothing_iterations_ explored.
MaxSmooth == 1
\* generate() calls explored on one instance.
MaxCalls == 2
MaxMeshCalls == 1
MaxRemeshCalls == 2
MaxDim == 5

\* ------------------------------------------------- CellType (enum values)
Wall == 0
Floor == 1
Spawn == 2
Prop == 3

\* ----------------------------------------------------------- integer help
Min2(a, b) == IF a < b THEN a ELSE b
Max2(a, b) == IF a > b THEN a ELSE b

RECURSIVE Pow(_, _)
Pow(b, e) == IF e = 0 THEN 1 ELSE b * Pow(b, e - 1)

RECURSIVE BitLen(_)
BitLen(n) == IF n = 0 THEN 0 ELSE 1 + BitLen(n \div 2)

\* ------------------------------------------- float (IEEE-754 binary32)
\* The centroid and distance arithmetic of detect_rooms and connect_rooms is
\* done in `float`.  A non-negative float is [m, e], the value m * 2^e with
\* 2^23 <= m < 2^24, or FZero.  Every operation rounds to nearest, ties to
\* even.  Intermediate integers of up to 56 bits are kept as a pair (hi, lo)
\* standing for hi * 2^28 + lo.
FZero == [m |-> 0, e |-> 0]

FNormal(n, e) ==
    IF n = 0 THEN FZero
    ELSE [m |-> n * Pow(2, 24 - BitLen(n)), e |-> e - (24 - BitLen(n))]

\* (hi * 2^28 + lo) * 2^e rounded to a float.
FRound(hi, lo, e) ==
    LET len == IF hi = 0 THEN BitLen(lo) ELSE 28 + BitLen(hi)
        s == len - 24
        top == IF s <= 28 THEN hi * Pow(2, 28 - s) + (lo \div Pow(2, s))
               ELSE hi \div Pow(2, s - 28)
        remHi == IF s <= 28 THEN 0 ELSE hi % Pow(2, s - 28)
        remLo == IF s <= 28 THEN lo % Pow(2, s) ELSE lo
        halfHi == IF s <= 28 THEN 0 ELSE Pow(2, s - 29)
        halfLo == IF s <= 28 THEN Pow(2, s - 1) ELSE 0
        above == remHi > halfHi \/ (remHi = halfHi /\ remLo > halfLo)
        tie == remHi = halfHi /\ remLo = halfLo
        m1 == IF above \/ (tie /\ top % 2 = 1) THEN top + 1 ELSE top
    IN  IF len <= 24 THEN FNormal(lo, e)
        ELSE IF m1 = Pow(2, 24) THEN [m |-> Pow(2, 23), e |-> e + s + 1]
        ELSE [m |-> m1, e |-> e + s]

\* The quotient bits of a / b, extended until there are 25 of them.
RECURSIVE DivBits(_, _, _, _)
DivBits(q, r, b, k) ==
    IF q >= Pow(2, 24) THEN [q |-> q, r |-> r, k |-> k]
    ELSE IF 2 * r >= b THEN DivBits(2 * q + 1, 2 * r - b, b, k + 1)
    ELSE DivBits(2 * q, 2 * r, b, k + 1)

\* float(a) / float(b) for integers 0 <= a < 2^24, 0 < b < 2^24.
FDivInt(a, b) ==
    IF a = 0 THEN FZero
    ELSE LET d == DivBits(a \div b, a % b, b, 0)
             m0 == d.q \div 2
             m1 == IF d.q % 2 = 1 /\ (d.r # 0 \/ m0 % 2 = 1) THEN m0 + 1 ELSE m0
         IN  IF m1 = Pow(2, 24) THEN [m |-> Pow(2, 23), e |-> 2 - d.k]
             ELSE [m |-> m1, e |-> 1 - d.k]

\* m * 2^d as a pair (hi, lo), for m < 2^24 and 0 <= d <= 28.
WideShift(m, d) ==
    IF d <= 4 THEN [hi |-> 0, lo |-> m * Pow(2, d)]
    ELSE [hi |-> m \div Pow(2, 28 - d), lo |-> (m % Pow(2, 28 - d)) * Pow(2, d)]

\* x + y.
FAdd(x, y) ==
    IF x.m = 0 THEN y
    ELSE IF y.m = 0 THEN x
    ELSE LET big == IF x.e >= y.e THEN x ELSE y
             small == IF x.e >= y.e THEN y ELSE x
             d == big.e - small.e
             w == WideShift(big.m, d)
             lo == w.lo + small.m
         IN  IF d > 25 THEN big
             ELSE FRound(w.hi + (lo \div Pow(2, 28)), lo % Pow(2, 28), small.e)

\* |x - y|; the sign of a difference is lost when it is squared.
FAbsDiff(x, y) ==
    IF x.m = 0 THEN y
    ELSE IF y.m = 0 THEN x
    ELSE LET big == IF x.e >= y.e THEN x ELSE y
             small == IF x.e >= y.e THEN y ELSE x
             d == big.e - small.e
             w == WideShift(big.m, d)
         IN  IF d > 25 THEN big
             ELSE IF w.hi = 0 /\ w.lo < small.m THEN FRound(0, small.m - w.lo, small.e)
             ELSE IF w.lo >= small.m THEN FRound(w.hi, w.lo - small.m, small.e)
             ELSE FRound(w.hi - 1, w.lo + Pow(2, 28) - small.m, small.e)

\* x * y.
FMul(x, y) ==
    IF x.m = 0 \/ y.m = 0 THEN FZero
    ELSE LET h1 == x.m \div Pow(2, 12)
             l1 == x.m % Pow(2, 12)
             h2 == y.m \div Pow(2, 12)
             l2 == y.m % Pow(2, 12)
             hh == h1 * h2
             mid == h1 * l2 + l1 * h2
             t1 == l1 * l2 + (mid % Pow(2, 16)) * Pow(2, 12)
             t2 == (t1 % Pow(2, 28)) + (hh % 16) * Pow(2, 24)
         IN  FRound((hh \div 16) + (mid \div Pow(2, 16)) + (t1 \div Pow(2, 28))
                        + (t2 \div Pow(2, 28)),
                    t2 % Pow(2, 28), x.e + y.e)

\* x < y.
FLess(x, y) ==
    IF y.m = 0 THEN FALSE
    ELSE IF x.m = 0 THEN TRUE
    ELSE x.e < y.e \/ (x.e = y.e /\ x.m < y.m)

\* static_cast<int>(x) for 0 <= x < 2^24.
FTrunc(x) == IF x.e >= 0 THEN x.m * Pow(2, x.e) ELSE x.m \div Pow(2, -x.e)

\* ------------------------------------------------ random engine (rng_)
\* Raw outputs are in 0 .. RngRange-1; output e stands for the real e/RngRange.
RngRange == 2

\* Seeds whose streams are written out below, each explored on one grid size:
\* 1000001 fills an 11x11 grid with a ring-shaped room around a one-cell room,
\* 1000002 fills a 25x25 grid with one room of 528 cells, 1000003 does the
\* same and then draws the first column of that room on the spawn's cell.
RingTape == [k \in 1 .. 81 |->
               LET x == ((k - 1) % 9) + 1
                   y == ((k - 1) \div 9) + 1
               IN  IF x \in {1, 9} \/ y \in {1, 9} \/ (x = 5 /\ y = 5) THEN 1 ELSE 0]

HallTape == [k \in 1 .. 540 |-> IF k \in {100, 531} THEN 0 ELSE 1]

PillarTape == [k \in 1 .. 567 |->
                 IF k \in {100, 531, 548, 551, 552, 554, 555, 556, 557} THEN 0 ELSE 1]

\* The stream an engine seeded with `seed` produces, repeated when exhausted:
\* for a seed below 2^TapeBits its TapeBits low bits, least significant first.
SeedTape(seed) ==
    CASE seed = 1000001 -> RingTape
      [] seed = 1000002 -> HallTape
      [] seed = 1000003 -> PillarTape
      [] OTHER -> [j \in 1 .. TapeBits |-> (seed \div Pow(2, j - 1)) % 2]

RngSeed(seed) == [tape |-> SeedTape(seed), pos |-> 0]

\* The k-th upcoming raw output (k = 0 is the next one).
RngPeek(rng, k) == rng.tape[((rng.pos + k) % Len(rng.tape)) + 1]

\* The engine after k outputs were consumed.
RngSkip(rng, k) == [rng EXCEPT !.pos = (rng.pos + k) % Len(rng.tape)]

\* uniform_real_distribution<float>(0,1) draw e/RngRange compared with num/den.
RealLess(e, num, den) == e * den < num * RngRange

\* Raw outputs one uniform_int_distribution draw over n values consumes.
RECURSIVE IntDraws(_)
IntDraws(n) == IF n <= RngRange THEN 1 ELSE 1 + IntDraws((n + RngRange - 1) \div RngRange)

RECURSIVE RawNumber(_, _, _)
RawNumber(rng, k, acc) ==
    IF k = 0 THEN acc
    ELSE RawNumber(RngSkip(rng, 1), k - 1, acc * RngRange + RngPeek(rng, 0))

\* uniform_int_distribution<int>(a, b)(rng_): the value drawn; the engine
\* afterwards is RngSkip(rng, IntDraws(b - a + 1)).
UniformInt(rng, a, b) == a + (RawNumber(rng, IntDraws(b - a + 1), 0) % (b - a + 1))

\* ------------------------------------------------------------ grid access
Idx(g, x, y) == y * g.width_ + x

in_bounds(g, x, y) == x >= 0 /\ x < g.width_ /\ y >= 0 /\ y < g.height_

get_cell(g, x, y) == IF ~in_bounds(g, x, y) THEN Wall ELSE g.cells_[Idx(g, x, y)]

\* Lines 418-422.
set_cell(g, x, y, type) ==
    IF in_bounds(g, x, y)
    THEN [g EXCEPT !.cells_ = [@ EXCEPT ![Idx(g, x, y)] = type]]
    ELSE g

is_wall(g, x, y) == get_cell(g, x, y) = Wall

\* A test that takes only the Floor type for floor.
is_floor_FloorTypeOnly(g, x, y) == get_cell(g, x, y) = Floor

is_floor(g, x, y) == get_cell(g, x, y) \in {Floor, Spawn, Prop}

Moore8 == {d \in (-1..1) \X (-1..1) : d # <<0, 0>>}

count_wall_neighbors(g, x, y) ==
    Cardinality({d \in Moore8 :
        ~in_bounds(g, x + d[1], y + d[2]) \/ is_wall(g, x + d[1], y + d[2])})

CellX(g, i) == i % g.width_
CellY(g, i) == i \div g.width_
Cells(g) == 0 .. (g.width_ * g.height_ - 1)

IsBorder(g, x, y) == x = 0 \/ x = g.width_ - 1 \/ y = 0 \/ y = g.height_ - 1

\* World coordinates are kept in half cell units (cell_size_ = 1.0f), as
\* integers: every float the two conversions produce is a multiple of 0.5.
\* ToFloat32(n) is the binary32 nearest to n halves, ties to even: n itself
\* while n has at most 24 significant bits.
ToFloat32(n) ==
    IF -16777216 <= n /\ n <= 16777216 THEN n
    ELSE LET a == IF n < 0 THEN -n ELSE n
             s == Pow(2, BitLen(a) - 24)
             q == a \div s
             r == a % s
             up == 2 * r > s \/ (2 * r = s /\ q % 2 = 1)
             m == (IF up THEN q + 1 ELSE q) * s
         IN  IF n < 0 THEN -m ELSE m

\* width_ / 2.0f: the int is converted to float, the halving is exact.
HalfOf(n) == ToFloat32(2 * n) \div 2

\* Lines 437-443: (x - width_ / 2.0f) * cell_size_, x converted to float.
cell_to_world(g, x, y) ==
    [x |-> ToFloat32(ToFloat32(2 * x) - HalfOf(g.width_)),
     y |-> 0,
     z |-> ToFloat32(ToFloat32(2 * y) - HalfOf(g.height_))]

\* static_cast<int>: towards zero.
TruncDiv(a, b) == IF a >= 0 THEN a \div b ELSE -((-a) \div b)

\* A conversion that halves the dimensions as integers.
world_to_cell_IntegerHalf(g, pos) ==
    <<TruncDiv(pos.x + 2 * (g.width_ \div 2), 2), TruncDiv(pos.z + 2 * (g.height_ \div 2), 2)>>

\* Lines 445-448: static_cast<int>(pos.x / cell_size_ + width_ / 2.0f).
world_to_cell(g, pos) ==
    <<TruncDiv(ToFloat32(pos.x + HalfOf(g.width_)), 2),
      TruncDiv(ToFloat32(pos.z + HalfOf(g.height_)), 2)>>

\* The loops `for y < height_` / `for x < width_` have a cell to visit.
\* Lines 445-448 for a position given in quarter cells (pos.x = 0.25 * pos.x
\* cells): the float sum pos.x + width_ / 2.0f, truncated toward zero.
world_to_cell_quarters(g, pos) ==
    <<TruncDiv(ToFloat32(pos.x + 2 * ToFloat32(g.width_)), 4),
      TruncDiv(ToFloat32(pos.z + 2 * ToFloat32(g.height_)), 4)>>

HasCells(g) == g.width_ > 0 /\ g.height_ > 0

\* ------------------------------------------------------- generate, entry
\* Lines 21-26: dimensions stored, cells_.resize(width*height, Wall) keeps the
\* old elements and appends Wall, the three lists are cleared.  A negative
\* product converts to a size beyond max_size(): resize throws
\* std::length_error after the dimensions have been stored, and generate is
\* left through the exception.
generate_begin(g, w, h) ==
    IF w * h < 0
    THEN [g EXCEPT !.width_ = w, !.height_ = h, !.pc = "threw"]
    ELSE
    [g EXCEPT !.width_ = w,
              !.height_ = h,
              !.cells_ = [i \in 0 .. (w * h - 1) |->
                            IF i \in DOMAIN g.cells_ THEN g.cells_[i] ELSE Wall],
              !.rooms_ = <<>>,
              !.spawns_ = <<>>,
              !.props_ = <<>>,
              !.room_map = [i \in 0 .. (w * h - 1) |-> -1],
              !.iter = 0,
              !.connected = {},
              !.corridors = <<>>,
              !.pc = "initialize_random"]

\* ------------------------------------------------------- step 1
NInterior(g) == IF g.width_ > 2 /\ g.height_ > 2
                THEN (g.width_ - 2) * (g.height_ - 2) ELSE 0

\* The row-major rank of interior cell (x, y): the number of draws made
\* before its own.
InteriorRank(g, x, y) == (y - 1) * (g.width_ - 2) + (x - 1)

initialize_random(g) ==
    [g EXCEPT !.cells_ = IF ~HasCells(g) THEN g.cells_ ELSE [i \in Cells(g) |->
                 LET x == CellX(g, i)
                     y == CellY(g, i)
                 IN  IF IsBorder(g, x, y) THEN Wall
                     ELSE IF RealLess(RngPeek(g.rng_, InteriorRank(g, x, y)),
                                      g.fill_ratio_, 100)
                          THEN Wall ELSE Floor],
              !.rng_ = RngSkip(g.rng_, NInterior(g)),
              !.pc = IF g.smoothing_iterations_ > 0
                     THEN "apply_cellular_automata" ELSE "detect_rooms"]

\* ------------------------------------------------------- step 2
\* A pass that writes row 1 first and reads it back, updated, for the rows
\* below.
apply_cellular_automata_ReadsUpdatedRow(g) ==
    LET Rule(h, i) ==
            LET walls == count_wall_neighbors(h, CellX(h, i), CellY(h, i))
            IN  IF IsBorder(h, CellX(h, i), CellY(h, i)) THEN h.cells_[i]
                ELSE IF walls > h.wall_threshold_ THEN Wall
                ELSE IF walls < h.wall_threshold_ THEN Floor
                ELSE h.cells_[i]
        g1 == [g EXCEPT !.cells_ = [i \in Cells(g) |->
                   IF CellY(g, i) = 1 THEN Rule(g, i) ELSE g.cells_[i]]]
    IN  [g EXCEPT !.cells_ = IF ~HasCells(g) THEN g.cells_ ELSE [i \in Cells(g) |->
                     IF CellY(g, i) = 1 THEN g1.cells_[i] ELSE Rule(g1, i)],
                  !.iter = g.iter + 1,
                  !.pc = IF g.iter + 1 < g.smoothing_iterations_
                         THEN "apply_cellular_automata" ELSE "detect_rooms"]

apply_cellular_automata(g) ==
    [g EXCEPT !.cells_ = IF ~HasCells(g) THEN g.cells_ ELSE [i \in Cells(g) |->
                 LET x == CellX(g, i)
                     y == CellY(g, i)
                     walls == count_wall_neighbors(g, x, y)
                 IN  IF IsBorder(g, x, y) THEN g.cells_[i]
                     ELSE IF walls > g.wall_threshold_ THEN Wall
                     ELSE IF walls < g.wall_threshold_ THEN Floor
                     ELSE g.cells_[i]],
              !.iter = g.iter + 1,
              !.pc = IF g.iter + 1 < g.smoothing_iterations_
                     THEN "apply_cellular_automata" ELSE "detect_rooms"]

\* ------------------------------------------------------- step 3
\* In-bounds 4-neighbours of cell i (dx/dy arrays of flood_fill_room).
Adj4(g, i) ==
    LET x == CellX(g, i)
        y == CellY(g, i)
    IN  {Idx(g, n[1], n[2]) : n \in {m \in {<<x, y - 1>>, <<x + 1, y>>,
                                            <<x, y + 1>>, <<x - 1, y>>} :
                                      in_bounds(g, m[1], m[2])}}

\* The breadth-first fill: `seen` are the cells labelled so far, `frontier`
\* those whose neighbours are still to be visited.
RECURSIVE FloodFrom(_, _, _)
FloodFrom(g, frontier, seen) ==
    LET new == {j \in UNION {Adj4(g, k) : k \in frontier} :
                  /\ j \notin seen
                  /\ is_floor(g, CellX(g, j), CellY(g, j))
                  /\ g.room_map[j] = -1}
    IN  IF new = {} THEN seen ELSE FloodFrom(g, new, seen \cup new)

flood_fill_room(g, x, y, room_id) ==
    LET filled == FloodFrom(g, {Idx(g, x, y)}, {Idx(g, x, y)})
    IN  [g EXCEPT !.room_map = [i \in Cells(g) |->
                                  IF i \in filled THEN room_id ELSE g.room_map[i]]]

\* The sum over the member cells of their x (byX) or y coordinates, added up
\* coordinate value by coordinate value.
RECURSIVE SumOver(_, _, _, _)
SumOver(S, g, byX, v) ==
    IF v < 0 THEN 0
    ELSE v * Cardinality({i \in S : (IF byX THEN CellX(g, i) ELSE CellY(g, i)) = v})
         + SumOver(S, g, byX, v - 1)

SetMin(S) == CHOOSE m \in S : \A n \in S : m <= n
SetMax(S) == CHOOSE m \in S : \A n \in S : m >= n

\* A Room whose area is that of its bounding box.
RoomOf_BoxArea(g, room_id) ==
    LET members == {i \in Cells(g) : g.room_map[i] = room_id}
        xs == {CellX(g, i) : i \in members}
        ys == {CellY(g, i) : i \in members}
    IN  [x |-> SetMin(xs),
         y |-> SetMin(ys),
         width |-> SetMax(xs) - SetMin(xs) + 1,
         height |-> SetMax(ys) - SetMin(ys) + 1,
         center |-> [x |-> FDivInt(SumOver(members, g, TRUE, g.width_ - 1),
                                   Cardinality(members)),
                     y |-> FDivInt(SumOver(members, g, FALSE, g.height_ - 1),
                                   Cardinality(members))],
         area |-> (SetMax(xs) - SetMin(xs) + 1) * (SetMax(ys) - SetMin(ys) + 1),
         is_main |-> FALSE]

\* Lines 111-146: the Room of the component just labelled room_id.
RoomOf(g, room_id) ==
    LET members == {i \in Cells(g) : g.room_map[i] = room_id}
        xs == {CellX(g, i) : i \in members}
        ys == {CellY(g, i) : i \in members}
    IN  [x |-> SetMin(xs),
         y |-> SetMin(ys),
         width |-> SetMax(xs) - SetMin(xs) + 1,
         height |-> SetMax(ys) - SetMin(ys) + 1,
         center |-> [x |-> FDivInt(SumOver(members, g, TRUE, g.width_ - 1),
                                   Cardinality(members)),
                     y |-> FDivInt(SumOver(members, g, FALSE, g.height_ - 1),
                                   Cardinality(members))],
         area |-> Cardinality(members),
         is_main |-> FALSE]

\* A scan that discards a small component without filling it with Wall.
RECURSIVE DetectScan_KeepSmall(_, _)
DetectScan_KeepSmall(g, i) ==
    LET starts == {j \in (IF HasCells(g) THEN Cells(g) ELSE {}) :
                                    /\ j >= i
                                    /\ is_floor(g, CellX(g, j), CellY(g, j))
                                    /\ g.room_map[j] = -1}
    IN  IF starts = {} THEN g
        ELSE LET s == SetMin(starts)
                 room_id == Len(g.rooms_)
                 f == flood_fill_room(g, CellX(g, s), CellY(g, s), room_id)
                 room == RoomOf(f, room_id)
             IN  IF room.area >= g.min_room_size_
                 THEN DetectScan_KeepSmall([f EXCEPT !.rooms_ = Append(f.rooms_, room)],
                                           s + 1)
                 ELSE DetectScan_KeepSmall(g, s + 1)

\* Lines 107-165: the row-major scan from cell i on, taken up at the next cell
\* that starts a room; room ids are 0-based and rooms_[id + 1] is the room
\* with that id.
RECURSIVE DetectScan(_, _)
DetectScan(g, i) ==
    LET starts == {j \in (IF HasCells(g) THEN Cells(g) ELSE {}) :
                                    /\ j >= i
                                    /\ is_floor(g, CellX(g, j), CellY(g, j))
                                    /\ g.room_map[j] = -1}
    IN  IF starts = {} THEN g
        ELSE LET s == SetMin(starts)
                 room_id == Len(g.rooms_)
                 f == flood_fill_room(g, CellX(g, s), CellY(g, s), room_id)
                 room == RoomOf(f, room_id)
             IN  IF room.area >= g.min_room_size_
                 THEN DetectScan([f EXCEPT !.rooms_ = Append(f.rooms_, room)], s + 1)
                 ELSE DetectScan(
                        [f EXCEPT !.cells_ = [j \in Cells(g) |->
                                     IF f.room_map[j] = room_id THEN Wall ELSE f.cells_[j]],
                                  !.room_map = [j \in Cells(g) |->
                                     IF f.room_map[j] = room_id THEN -1 ELSE f.room_map[j]]],
                        s + 1)

\* std::max_element with the comparison a.area < b.area (lines 168-170): the
\* running maximum is replaced only by a strictly larger room.
RECURSIVE MaxElement(_, _, _)
MaxElement(rooms, k, largest) ==
    IF k > Len(rooms) THEN largest
    ELSE MaxElement(rooms, k + 1,
                    IF rooms[largest].area < rooms[k].area THEN k ELSE largest)

\* A selection that lets a later room of equal area take over.
LargestRoom_LastOfEqual(rooms) ==
    CHOOSE k \in 1 .. Len(rooms) :
        /\ \A m \in 1 .. Len(rooms) : rooms[m].area <= rooms[k].area
        /\ \A m \in (k + 1) .. Len(rooms) : rooms[m].area < rooms[k].area

LargestRoom(rooms) == MaxElement(rooms, 2, 1)

detect_rooms(g) ==
    LET d == DetectScan([g EXCEPT !.room_map = [i \in Cells(g) |-> -1]], 0)
    IN  [d EXCEPT !.rooms_ = IF d.rooms_ = <<>> THEN <<>>
                             ELSE [d.rooms_ EXCEPT ![LargestRoom(d.rooms_)].is_main = TRUE],
                  !.pc = "connect_rooms"]

\* ------------------------------------------------------- step 4
Room(g, id) == g.rooms_[id + 1]

\* Lines 221-223: dx * dx + dy * dy, each operation rounded to float.
Dist(a, b) ==
    LET dx == FAbsDiff(a.center.x, b.center.x)
        dy == FAbsDiff(a.center.y, b.center.y)
    IN  FAdd(FMul(dx, dx), FMul(dy, dy))

DistLess(g, p, q) ==
    FLess(Dist(Room(g, p[1]), Room(g, p[2])), Dist(Room(g, q[1]), Room(g, q[2])))

\* A search that keeps the last pair of minimal distance (dist <= best_dist).
BestPair_LastOfEqual(g) ==
    LET pairs == {p \in (0 .. Len(g.rooms_) - 1) \X (0 .. Len(g.rooms_) - 1) :
                    p[1] \in g.connected /\ p[2] \notin g.connected}
        Before(p, q) == p[1] < q[1] \/ (p[1] = q[1] /\ p[2] < q[2])
    IN  CHOOSE p \in pairs :
            \A q \in pairs : /\ ~DistLess(g, q, p)
                             /\ (Before(p, q) => DistLess(g, p, q))

\* Lines 210-231: the loops over i (connected) and j (unconnected) with the
\* strict test dist < best_dist keep the first pair of minimal distance.
BestPair(g) ==
    LET pairs == {p \in (0 .. Len(g.rooms_) - 1) \X (0 .. Len(g.rooms_) - 1) :
                    p[1] \in g.connected /\ p[2] \notin g.connected}
        Before(p, q) == p[1] < q[1] \/ (p[1] = q[1] /\ p[2] < q[2])
    IN  CHOOSE p \in pairs :
            \A q \in pairs : /\ ~DistLess(g, q, p)
                             /\ (Before(q, p) => DistLess(g, p, q))

\* Lines 242-245: static_cast<int> of the centre coordinates.
CenterX(r) == FTrunc(r.center.x)
CenterY(r) == FTrunc(r.center.y)

corridor_width == 2

\* A corridor that stops at the corner: the first leg only.
CorridorCells_FirstLegOnly(a, b, horizontal_first) ==
    LET band == (-corridor_width) .. corridor_width
    IN  IF horizontal_first
        THEN {<<x, FTrunc(a.center.y) + w>> :
                 x \in Min2(FTrunc(a.center.x), FTrunc(b.center.x)) ..
                       Max2(FTrunc(a.center.x), FTrunc(b.center.x)), w \in band}
        ELSE {<<FTrunc(a.center.x) + w, y>> :
                 w \in band,
                 y \in Min2(FTrunc(a.center.y), FTrunc(b.center.y)) ..
                       Max2(FTrunc(a.center.y), FTrunc(b.center.y))}

\* A corridor whose legs meet at the other corner: the horizontal leg on b's
\* row and the vertical leg on a's column when horizontal_first.
CorridorCells_OtherCorner(a, b, horizontal_first) ==
    LET xs == Min2(CenterX(a), CenterX(b)) .. Max2(CenterX(a), CenterX(b))
        ys == Min2(CenterY(a), CenterY(b)) .. Max2(CenterY(a), CenterY(b))
        band == (-corridor_width) .. corridor_width
    IN  IF horizontal_first
        THEN {<<x, CenterY(b) + w>> : x \in xs, w \in band}
             \cup {<<CenterX(a) + w, y>> : w \in band, y \in ys}
        ELSE {<<CenterX(b) + w, y>> : w \in band, y \in ys}
             \cup {<<x, CenterY(a) + w>> : x \in xs, w \in band}

\* The cells create_corridor writes, before clipping to the grid.
CorridorCells(a, b, horizontal_first) ==
    LET x0 == CenterX(a)
        y0 == CenterY(a)
        x1 == CenterX(b)
        y1 == CenterY(b)
        xs == Min2(x0, x1) .. Max2(x0, x1)
        ys == Min2(y0, y1) .. Max2(y0, y1)
        band == (-corridor_width) .. corridor_width
    IN  IF horizontal_first
        THEN {<<x, y0 + w>> : x \in xs, w \in band} \cup {<<x1 + w, y>> : w \in band, y \in ys}
        ELSE {<<x0 + w, y>> : w \in band, y \in ys} \cup {<<x, y1 + w>> : x \in xs, w \in band}

create_corridor(g, a, b) ==
    LET horizontal_first == UniformInt(g.rng_, 0, 1) = 0
        carve == CorridorCells(a, b, horizontal_first)
    IN  [g EXCEPT !.cells_ = [i \in Cells(g) |->
                                IF <<CellX(g, i), CellY(g, i)>> \in carve
                                THEN Floor ELSE g.cells_[i]],
                  !.rng_ = RngSkip(g.rng_, IntDraws(2))]

\* Lines 202-207.
connect_rooms_begin(g) ==
    IF Len(g.rooms_) < 2
    THEN [g EXCEPT !.pc = "place_spawns"]
    ELSE [g EXCEPT !.connected = {0}, !.pc = "connect_loop"]

\* An iteration that marks every room connected after carving one corridor.
connect_rooms_step_MarksAll(g) ==
    LET best == BestPair(g)
        c == create_corridor(g, Room(g, best[1]), Room(g, best[2]))
    IN  [c EXCEPT !.connected = 0 .. (Len(g.rooms_) - 1),
                  !.corridors = Append(g.corridors, best),
                  !.pc = "place_spawns"]

\* One iteration of the while loop, lines 209-238.
connect_rooms_step(g) ==
    LET best == BestPair(g)
        c == create_corridor(g, Room(g, best[1]), Room(g, best[2]))
    IN  [c EXCEPT !.connected = g.connected \cup {best[2]},
                  !.corridors = Append(g.corridors, best),
                  !.pc = IF Cardinality(g.connected) + 1 < Len(g.rooms_)
                         THEN "connect_loop" ELSE "place_spawns"]

\* ------------------------------------------------------- step 5
\* std::shuffle: position i (from the second on) is swapped with a position
\* drawn uniformly from the first i; returns the permutation and the engine.
RECURSIVE Shuffle(_, _, _)
Shuffle(seq, rng, i) ==
    IF i > Len(seq) THEN [seq |-> seq, rng |-> rng]
    ELSE LET j == UniformInt(rng, 1, i)
         IN  Shuffle([seq EXCEPT ![i] = seq[j], ![j] = seq[i]],
                     RngSkip(rng, IntDraws(i)), i + 1)

\* The k-th (0-based) element of a set of cell indices in row-major order.
Kth(S, k) == CHOOSE e \in S : Cardinality({f \in S : f < e}) = k

\* A scan that takes every floor cell of the bounding box as a candidate.
SpawnCandidates_AnyFloor(g, room) ==
    {i \in Cells(g) :
        /\ CellX(g, i) >= room.x /\ CellX(g, i) < room.x + room.width
        /\ CellY(g, i) >= room.y /\ CellY(g, i) < room.y + room.height
        /\ is_floor(g, CellX(g, i), CellY(g, i))}

\* Lines 310-321: the candidate cells of a room, scanned over its bounding box.
SpawnCandidates(g, room) ==
    {i \in Cells(g) :
        /\ CellX(g, i) >= room.x /\ CellX(g, i) < room.x + room.width
        /\ CellY(g, i) >= room.y /\ CellY(g, i) < room.y + room.height
        /\ is_floor(g, CellX(g, i), CellY(g, i))
        /\ count_wall_neighbors(g, CellX(g, i), CellY(g, i)) = 0}

\* Lines 306-336, slot i (0-based) of the shuffled order onwards.
RECURSIVE SpawnLoop(_, _, _, _)
SpawnLoop(g, room_indices, i, count) ==
    IF ~(i < count /\ i < Len(g.rooms_)) THEN g
    ELSE LET rid == room_indices[i + 1]
             floor_cells == SpawnCandidates(g, Room(g, rid))
         IN  IF floor_cells = {} THEN SpawnLoop(g, room_indices, i + 1, count)
             ELSE LET n == Cardinality(floor_cells)
                      c == Kth(floor_cells, UniformInt(g.rng_, 0, n - 1))
                      r1 == RngSkip(g.rng_, IntDraws(n))
                      spawn == [position |-> cell_to_world(g, CellX(g, c), CellY(g, c)),
                                rotation |-> RngPeek(r1, 0),
                                room_id |-> rid,
                                cell |-> <<CellX(g, c), CellY(g, c)>>]
                  IN  SpawnLoop([g EXCEPT !.spawns_ = Append(g.spawns_, spawn),
                                          !.cells_[c] = Spawn,
                                          !.rng_ = RngSkip(r1, 1)],
                                room_indices, i + 1, count)

place_spawns(g, count) ==
    IF g.rooms_ = <<>> THEN [g EXCEPT !.pc = "place_props"]
    ELSE LET sh == Shuffle([k \in 1 .. Len(g.rooms_) |-> k - 1], g.rng_, 2)
         IN  [SpawnLoop([g EXCEPT !.rng_ = sh.rng], sh.seq, 0, count)
                 EXCEPT !.pc = "place_props"]

\* ------------------------------------------------------- step 6
\* Lines 351-360: some cell of the 3x3 block around (x, y) is Wall.
NearWall(g, x, y) ==
    \E dy \in -1 .. 1 : \E dx \in -1 .. 1 : is_wall(g, x + dx, y + dy)

\* A count that also takes the four diagonal neighbours.
AdjacentFloors_WithDiagonals(g, x, y) ==
    Cardinality({d \in Moore8 : is_floor(g, x + d[1], y + d[2])})

\* Lines 364-368.
AdjacentFloors(g, x, y) ==
    Cardinality({n \in {<<x - 1, y>>, <<x + 1, y>>, <<x, y - 1>>, <<x, y + 1>>} :
                   is_floor(g, n[1], n[2])})

\* uniform_real_distribution<float>(0.8f, 1.2f), in hundredths.
ScaleOf(e) == 80 + (40 * e) \div RngRange

\* Lines 346-383: the scan from cell i on, taken up at the next floor cell of
\* the scanned range that is near a wall; the probability draw is made only
\* for such a cell, the three attribute draws only for a prop.  Placing a prop
\* leaves every cell's floor/wall kind as it was, so the cells the scan stops
\* at can be found on the current grid.
RECURSIVE WallPropScan(_, _)
WallPropScan(g, i) ==
    LET stops == {j \in (IF HasCells(g) THEN Cells(g) ELSE {}) :
                    /\ j >= i
                    /\ CellY(g, j) >= 2 /\ CellY(g, j) < g.height_ - 2
                    /\ CellX(g, j) >= 2 /\ CellX(g, j) < g.width_ - 2
                    /\ is_floor(g, CellX(g, j), CellY(g, j))
                    /\ NearWall(g, CellX(g, j), CellY(g, j))}
    IN  IF stops = {} THEN g
        ELSE LET c == SetMin(stops)
                 x == CellX(g, c)
                 y == CellY(g, c)
             IN  IF ~RealLess(RngPeek(g.rng_, 0), 2, 100)
                 THEN WallPropScan([g EXCEPT !.rng_ = RngSkip(g.rng_, 1)], c + 1)
                 ELSE IF AdjacentFloors(g, x, y) < 2
                 THEN WallPropScan([g EXCEPT !.rng_ = RngSkip(g.rng_, 1)], c + 1)
                 ELSE LET r1 == RngSkip(g.rng_, 1)
                          r2 == RngSkip(r1, 1)
                          r3 == RngSkip(r2, IntDraws(3))
                          prop == [position |-> cell_to_world(g, x, y),
                                   rotation |-> RngPeek(r1, 0),
                                   prop_type |-> UniformInt(r2, 0, 2),
                                   scale |-> ScaleOf(RngPeek(r3, 0)),
                                   cell |-> <<x, y>>]
                      IN  WallPropScan([g EXCEPT !.props_ = Append(g.props_, prop),
                                                 !.cells_[c] = Prop,
                                                 !.rng_ = RngSkip(r3, 1)],
                                       c + 1)

ColumnMinArea == 500
ColumnPerArea == 200

\* One coordinate drawn by uniform_int_distribution<int>(a, b).  With a > b
\* the call is outside the distribution's contract and the value is whatever
\* the build yields: `u`, chosen by the caller of place_props.
ColumnCoord(rng, a, b, u) == IF a <= b THEN UniformInt(rng, a, b) ELSE u

ColumnDraws(a, b) == IF a <= b THEN IntDraws(b - a + 1) ELSE 1

\* Lines 393-408: columns i .. num_columns-1 of one room.
RECURSIVE ColumnLoop(_, _, _, _, _)
ColumnLoop(g, room, i, num_columns, ub) ==
    IF i >= num_columns THEN g
    ELSE LET xa == room.x + 3
             xb == room.x + room.width - 4
             ya == room.y + 3
             yb == room.y + room.height - 4
             cx == ColumnCoord(g.rng_, xa, xb, ub[1])
             r1 == RngSkip(g.rng_, ColumnDraws(xa, xb))
             cy == ColumnCoord(r1, ya, yb, ub[2])
             r2 == RngSkip(r1, ColumnDraws(ya, yb))
         IN  IF is_floor(g, cx, cy) /\ count_wall_neighbors(g, cx, cy) = 0
             THEN LET prop == [position |-> cell_to_world(g, cx, cy),
                               rotation |-> 0,
                               prop_type |-> 0,
                               scale |-> 150,
                               cell |-> <<cx, cy>>]
                  IN  ColumnLoop([g EXCEPT !.props_ = Append(g.props_, prop),
                                           !.cells_[Idx(g, cx, cy)] = Prop,
                                           !.rng_ = r2],
                                 room, i + 1, num_columns, ub)
             ELSE ColumnLoop([g EXCEPT !.rng_ = r2], room, i + 1, num_columns, ub)

\* Lines 386-410: rooms k .. (1-based position in rooms_).
RECURSIVE ColumnRooms(_, _, _)
ColumnRooms(g, k, ub) ==
    IF k > Len(g.rooms_) THEN g
    ELSE IF g.rooms_[k].area > ColumnMinArea
         THEN ColumnRooms(ColumnLoop(g, g.rooms_[k], 0,
                                     g.rooms_[k].area \div ColumnPerArea, ub),
                          k + 1, ub)
         ELSE ColumnRooms(g, k + 1, ub)

place_props(g, ub) ==
    [ColumnRooms(WallPropScan(g, 0), 1, ub) EXCEPT !.pc = "done"]

\* ---------------------------------------------------------------- MapMesh
\* Positions are in half cells, like cell_to_world: cell_size() * 0.5f is 1.
\* A vertex is [position, normal]; colour and texture coordinates are left out.
V3(x, y, z) == [x |-> x, y |-> y, z |-> z]

RECURSIVE Gcd(_, _)
Gcd(a, b) == IF b = 0 THEN a ELSE Gcd(b, a % b)

Abs(n) == IF n < 0 THEN -n ELSE n

\* math.h normalize(): v / length(v), or the zero vector for a zero v.  The
\* unit vector is kept as [x, y, z, len2], standing for (x, y, z) / sqrt(len2)
\* with x, y, z in lowest terms.
normalize(v) ==
    LET d == Gcd(Gcd(Abs(v.x), Abs(v.y)), Abs(v.z))
    IN  IF d = 0 THEN [x |-> 0, y |-> 0, z |-> 0, len2 |-> 1]
        ELSE [x |-> v.x \div d, y |-> v.y \div d, z |-> v.z \div d,
              len2 |-> ((v.x \div d) * (v.x \div d)) + ((v.y \div d) * (v.y \div d))
                         + ((v.z \div d) * (v.z \div d))]

\* The vertex and index vectors a builder fills.
NoGeometry == [vertices |-> <<>>, indices |-> <<>>]

\* The two triangles add_quad and add_wall_segment push (lines 305-311, 359-364).
QuadIndices(base) == <<base, base + 1, base + 2, base, base + 2, base + 3>>

\* add_quad, lines 271-312; base_index is vertices.size() before the push.
add_quad(b, p0, p1, p2, p3, normal) ==
    [vertices |-> b.vertices \o <<[position |-> p0, normal |-> normal],
                                  [position |-> p1, normal |-> normal],
                                  [position |-> p2, normal |-> normal],
                                  [position |-> p3, normal |-> normal]>>,
     indices |-> b.indices \o QuadIndices(Len(b.vertices))]

\* add_wall_segment, lines 314-365.
add_wall_segment(b, start, end, height, floor_y) ==
    LET dir == V3(end.x - start.x, end.y - start.y, end.z - start.z)
        normal == normalize(V3(-dir.z, 0, dir.x))
    IN  [vertices |-> b.vertices \o
                        <<[position |-> start, normal |-> normal],
                          [position |-> end, normal |-> normal],
                          [position |-> V3(end.x, floor_y + height, end.z),
                           normal |-> normal],
                          [position |-> V3(start.x, floor_y + height, start.z),
                           normal |-> normal]>>,
         indices |-> b.indices \o QuadIndices(Len(b.vertices))]

\* Lines 68-85: the cells from index i on, in row-major order.
RECURSIVE generate_floor(_, _, _, _)
generate_floor(map, config, i, b) ==
    IF ~HasCells(map) \/ i >= map.width_ * map.height_ THEN b
    ELSE IF ~is_floor(map, CellX(map, i), CellY(map, i))
    THEN generate_floor(map, config, i + 1, b)
    ELSE LET world == cell_to_world(map, CellX(map, i), CellY(map, i))
             fy == config.floor_height
         IN  generate_floor(map, config, i + 1,
                 add_quad(b, V3(world.x - 1, fy, world.z - 1),
                             V3(world.x + 1, fy, world.z - 1),
                             V3(world.x + 1, fy, world.z + 1),
                             V3(world.x - 1, fy, world.z + 1),
                          [x |-> 0, y |-> 1, z |-> 0, len2 |-> 1]))

\* Lines 251-268.
RECURSIVE generate_ceiling(_, _, _, _)
generate_ceiling(map, config, i, b) ==
    IF ~HasCells(map) \/ i >= map.width_ * map.height_ THEN b
    ELSE IF ~is_floor(map, CellX(map, i), CellY(map, i))
    THEN generate_ceiling(map, config, i + 1, b)
    ELSE LET world == cell_to_world(map, CellX(map, i), CellY(map, i))
             cy == config.ceiling_height
         IN  generate_ceiling(map, config, i + 1,
                 add_quad(b, V3(world.x - 1, cy, world.z + 1),
                             V3(world.x + 1, cy, world.z + 1),
                             V3(world.x + 1, cy, world.z - 1),
                             V3(world.x - 1, cy, world.z - 1),
                          [x |-> 0, y |-> -1, z |-> 0, len2 |-> 1]))

\* Lines 103-135: the faces of one floor cell, north, south, west, east.
SimpleWallsOfCell(map, config, x, y, b) ==
    LET world == cell_to_world(map, x, y)
        fy == config.floor_height
        wh == config.wall_height
        b1 == IF is_wall(map, x, y - 1)
              THEN add_wall_segment(b, V3(world.x - 1, fy, world.z - 1),
                                       V3(world.x + 1, fy, world.z - 1), wh, fy)
              ELSE b
        b2 == IF is_wall(map, x, y + 1)
              THEN add_wall_segment(b1, V3(world.x + 1, fy, world.z + 1),
                                        V3(world.x - 1, fy, world.z + 1), wh, fy)
              ELSE b1
        b3 == IF is_wall(map, x - 1, y)
              THEN add_wall_segment(b2, V3(world.x - 1, fy, world.z + 1),
                                        V3(world.x - 1, fy, world.z - 1), wh, fy)
              ELSE b2
    IN  IF is_wall(map, x + 1, y)
        THEN add_wall_segment(b3, V3(world.x + 1, fy, world.z - 1),
                                  V3(world.x + 1, fy, world.z + 1), wh, fy)
        ELSE b3

\* Lines 96-137.
RECURSIVE generate_walls_simple(_, _, _, _)
generate_walls_simple(map, config, i, b) ==
    IF ~HasCells(map) \/ i >= map.width_ * map.height_ THEN b
    ELSE IF ~is_floor(map, CellX(map, i), CellY(map, i))
    THEN generate_walls_simple(map, config, i + 1, b)
    ELSE generate_walls_simple(map, config, i + 1,
             SimpleWallsOfCell(map, config, CellX(map, i), CellY(map, i), b))

\* The configuration with the top-right and bottom-left bits exchanged.
ConfigIdx_BitsSwapped(map, x, y) ==
    (IF ~is_floor(map, x, y) THEN 1 ELSE 0)
      + (IF ~is_floor(map, x + 1, y) THEN 4 ELSE 0)
      + (IF ~is_floor(map, x, y + 1) THEN 2 ELSE 0)
      + (IF ~is_floor(map, x + 1, y + 1) THEN 8 ELSE 0)

\* Lines 159-160: the configuration of the 2x2 block whose top-left cell is
\* (x, y).
ConfigIdx(map, x, y) ==
    (IF ~is_floor(map, x, y) THEN 1 ELSE 0)
      + (IF ~is_floor(map, x + 1, y) THEN 2 ELSE 0)
      + (IF ~is_floor(map, x, y + 1) THEN 4 ELSE 0)
      + (IF ~is_floor(map, x + 1, y + 1) THEN 8 ELSE 0)

\* A switch that draws one segment through every mixed block, the two
\* saddles included.
MarchSegments_OneSegmentPerBlock(config_idx, n, s, w, e) ==
    IF config_idx \in {0, 15} THEN <<>>
    ELSE IF config_idx \in {1, 3, 7, 9, 11} THEN <<<<n, w>>>>
    ELSE <<<<e, n>>>>

\* Lines 177-239: the switch; each entry is <<start, end>>.
MarchSegments(config_idx, n, s, w, e) ==
    CASE config_idx = 1 -> <<<<n, w>>>>
      [] config_idx = 2 -> <<<<e, n>>>>
      [] config_idx = 3 -> <<<<e, w>>>>
      [] config_idx = 4 -> <<<<w, s>>>>
      [] config_idx = 5 -> <<<<n, s>>>>
      [] config_idx = 6 -> <<<<e, n>>, <<w, s>>>>
      [] config_idx = 7 -> <<<<e, s>>>>
      [] config_idx = 8 -> <<<<s, e>>>>
      [] config_idx = 9 -> <<<<n, w>>, <<s, e>>>>
      [] config_idx = 10 -> <<<<s, n>>>>
      [] config_idx = 11 -> <<<<s, w>>>>
      [] config_idx = 12 -> <<<<w, e>>>>
      [] config_idx = 13 -> <<<<n, e>>>>
      [] config_idx = 14 -> <<<<w, n>>>>
      [] OTHER -> <<>>

RECURSIVE AddSegments(_, _, _, _)
AddSegments(b, segs, k, config) ==
    IF k > Len(segs) THEN b
    ELSE AddSegments(add_wall_segment(b, segs[k][1], segs[k][2],
                                      config.wall_height, config.floor_height),
                     segs, k + 1, config)

\* Lines 152-240: the blocks from number k on; block k has its top-left cell
\* at (k % (width - 1), k / (width - 1)).
RECURSIVE generate_walls_marching(_, _, _, _)
generate_walls_marching(map, config, k, b) ==
    IF map.width_ < 2 \/ map.height_ < 2
         \/ k >= (map.width_ - 1) * (map.height_ - 1) THEN b
    ELSE LET x == k % (map.width_ - 1)
             y == k \div (map.width_ - 1)
             world == cell_to_world(map, x, y)
             cx == world.x + 1
             cz == world.z + 1
             fy == config.floor_height
         IN  generate_walls_marching(map, config, k + 1,
                 AddSegments(b, MarchSegments(ConfigIdx(map, x, y),
                                              V3(cx, fy, cz - 1), V3(cx, fy, cz + 1),
                                              V3(cx - 1, fy, cz), V3(cx + 1, fy, cz)),
                             1, config))

\* A default-constructed Mesh (mesh.h:66-72): null buffers, counts of 0.  A
\* buffer is modelled by the data uploaded to it, the null handle by <<>>.
NoBuffers == [vertex_count_ |-> 0, index_count_ |-> 0,
              vertex_buffer_ |-> <<>>, index_buffer_ |-> <<>>]

\* Mesh::create (mesh.cpp:55-70) refuses empty input; otherwise the mesh
\* holds what it was given.
MeshCreate(old, b) ==
    IF b.vertices = <<>> \/ b.indices = <<>> THEN old
    ELSE [vertex_count_ |-> Len(b.vertices), index_count_ |-> Len(b.indices),
          vertex_buffer_ |-> b.vertices, index_buffer_ |-> b.indices]

\* Mesh::destroy (mesh.cpp:128-147): the buffers are destroyed and their
\* handles nulled; vertex_count_ and index_count_ are not written.
Mesh_destroy(old) ==
    [old EXCEPT !.vertex_buffer_ = <<>>, !.index_buffer_ = <<>>]

\* map_mesh.h:49-52.
has_floor(m) == m.floor_mesh_.vertex_count_ > 0
has_walls(m) == m.wall_mesh_.vertex_count_ > 0
has_ceiling(m) == m.ceiling_mesh_.vertex_count_ > 0

\* MapMesh::generate, lines 11-51.  built keeps the vectors the three
\* builders filled during the call (the ceiling builder's are what it fills
\* when called), config and map the arguments of the call.
MapMesh_generate(m, map, config) ==
    LET f == generate_floor(map, config, 0, NoGeometry)
        w == IF config.smooth_walls
             THEN generate_walls_marching(map, config, 0, NoGeometry)
             ELSE generate_walls_simple(map, config, 0, NoGeometry)
        c == generate_ceiling(map, config, 0, NoGeometry)
    IN  [floor_mesh_ |-> IF f.vertices # <<>> THEN MeshCreate(m.floor_mesh_, f)
                         ELSE m.floor_mesh_,
         wall_mesh_ |-> IF w.vertices # <<>> THEN MeshCreate(m.wall_mesh_, w)
                        ELSE m.wall_mesh_,
         ceiling_mesh_ |-> IF config.generate_ceiling /\ c.vertices # <<>>
                           THEN MeshCreate(m.ceiling_mesh_, c)
                           ELSE m.ceiling_mesh_,
         built |-> [floor |-> f, wall |-> w, ceiling |-> c],
         config |-> config,
         map |-> map,
         calls |-> m.calls + 1,
         op |-> "generate"]

\* MapMesh::destroy, lines 54-58; op is the last call made on the object.
MapMesh_destroy(m) ==
    [m EXCEPT !.floor_mesh_ = Mesh_destroy(m.floor_mesh_),
              !.wall_mesh_ = Mesh_destroy(m.wall_mesh_),
              !.ceiling_mesh_ = Mesh_destroy(m.ceiling_mesh_),
              !.op = "destroy"]

\* ------------------------------------------------------------ the machine
\* gen[i] is MapGenerator object i; returned[i] lists what each completed
\* generate() call of object i left behind; mesh is the MapMesh object;
\* query is the last coordinate conversion a caller made.
VARIABLES gen, returned, mesh, query

vars == <<gen, returned, mesh, query>>

Instances == {1, 2}

\* An object that has not been constructed.
NoGen == [pc |-> "none"]

\* MapMesh() with its three default-constructed Mesh members, no vertices in
\* any; config is the configuration of the last generate() call.
NoMesh == [floor_mesh_ |-> NoBuffers, wall_mesh_ |-> NoBuffers,
           ceiling_mesh_ |-> NoBuffers,
           built |-> [floor |-> NoGeometry, wall |-> NoGeometry,
                      ceiling |-> NoGeometry],
           config |-> <<>>, map |-> <<>>, calls |-> 0, op |-> "none"]

\* No conversion made yet.
NoQuery == <<>>

\* Seeds, generation parameters and dimensions explored.
Seeds == (0 .. (Pow(2, TapeBits) - 1)) \cup {1000001, 1000002, 1000003}
Dims == {<<7, 6>>}
DimsFor(seed) ==
    CASE seed = 1000001 -> {<<11, 11>>}
      [] seed = 1000002 -> {<<25, 25>>}
      [] seed = 1000003 -> {<<25, 25>>}
      [] OTHER -> Dims
MinRoomSizes == {1, 3}
WallThresholds == {4}
FillRatios == {45}

\* MapGenerator(seed) followed by the four setters; fill_ratio_ is in percent.
Construct(seed, fill, smooth, minroom, thresh) ==
    [pc |-> "idle",
     width_ |-> 0,
     height_ |-> 0,
     cells_ |-> <<>>,
     rooms_ |-> <<>>,
     spawns_ |-> <<>>,
     props_ |-> <<>>,
     fill_ratio_ |-> fill,
     smoothing_iterations_ |-> smooth,
     min_room_size_ |-> minroom,
     wall_threshold_ |-> thresh,
     rng_ |-> RngSeed(seed),
     seed_ |-> seed,
     room_map |-> <<>>,
     iter |-> 0,
     connected |-> {},
     corridors |-> <<>>,
     calls |-> 0,
     args |-> <<0, 0>>]

\* What a caller can read once generate() has returned.
Output(g) == [width |-> g.width_, height |-> g.height_, cells |-> g.cells_,
              rooms |-> g.rooms_, spawns |-> g.spawns_, props |-> g.props_]

Configs == {Construct(s, f, n, m, t) : s \in Seeds, f \in FillRatios,
                                       n \in 0 .. MaxSmooth, m \in MinRoomSizes,
                                       t \in WallThresholds}

Init ==
    /\ \E c \in Configs : gen = [i \in Instances |-> IF i = 1 THEN c ELSE NoGen]
    /\ returned = [i \in Instances |-> <<>>]
    /\ mesh = NoMesh
    /\ query = NoQuery

Generate(i) ==
    /\ gen[i].pc \in {"idle", "done"}
    /\ gen[i].calls < MaxCalls
    /\ \E d \in DimsFor(gen[i].seed_) :
         gen' = [gen EXCEPT ![i] = [generate_begin(gen[i], d[1], d[2])
                                       EXCEPT !.calls = gen[i].calls + 1,
                                              !.args = d]]
    /\ UNCHANGED <<returned, mesh, query>>

\* generate(width, height) with a width or height that is not positive.
InvalidDims == {<<0, 6>>, <<7, 0>>, <<0, 0>>, <<-2, -3>>, <<-1, 4>>}

GenerateInvalid(i) ==
    /\ gen[i].pc \in {"idle", "done"}
    /\ gen[i].calls < MaxCalls
    /\ \E d \in InvalidDims :
         gen' = [gen EXCEPT ![i] = [generate_begin(gen[i], d[1], d[2])
                                       EXCEPT !.calls = gen[i].calls + 1,
                                              !.args = d]]
    /\ UNCHANGED <<returned, mesh, query>>

\* A random fill drawing from one engine shared by all generator objects.
InitializeRandom_SharedEngine(i) ==
    /\ gen[i].pc = "initialize_random"
    /\ gen' = [gen EXCEPT ![i] = initialize_random([gen[i] EXCEPT !.rng_ = gen[1].rng_])]
    /\ UNCHANGED <<returned, mesh, query>>

InitializeRandom(i) ==
    /\ gen[i].pc = "initialize_random"
    /\ gen' = [gen EXCEPT ![i] = initialize_random(gen[i])]
    /\ UNCHANGED <<returned, mesh, query>>

ApplyCellularAutomata(i) ==
    /\ gen[i].pc = "apply_cellular_automata"
    /\ gen' = [gen EXCEPT ![i] = apply_cellular_automata(gen[i])]
    /\ UNCHANGED <<returned, mesh, query>>

DetectRooms(i) ==
    /\ gen[i].pc = "detect_rooms"
    /\ gen' = [gen EXCEPT ![i] = detect_rooms(gen[i])]
    /\ UNCHANGED <<returned, mesh, query>>

ConnectRoomsBegin(i) ==
    /\ gen[i].pc = "connect_rooms"
    /\ gen' = [gen EXCEPT ![i] = connect_rooms_begin(gen[i])]
    /\ UNCHANGED <<returned, mesh, query>>

ConnectRoomsStep(i) ==
    /\ gen[i].pc = "connect_loop"
    /\ gen' = [gen EXCEPT ![i] = connect_rooms_step(gen[i])]
    /\ UNCHANGED <<returned, mesh, query>>

PlaceSpawns(i) ==
    /\ gen[i].pc = "place_spawns"
    /\ gen' = [gen EXCEPT ![i] = place_spawns(gen[i], 4)]
    /\ UNCHANGED <<returned, mesh, query>>

\* Values an out-of-contract column draw may yield (see ColumnCoord).
StrayCoords == {-1, 4}

PlaceProps(i) ==
    /\ gen[i].pc = "place_props"
    /\ \E ub \in StrayCoords \X StrayCoords :
         /\ gen' = [gen EXCEPT ![i] = place_props(gen[i], ub)]
         /\ returned' = [returned EXCEPT ![i] = Append(@, Output(gen'[i]))]
         /\ UNCHANGED <<mesh, query>>

Step(i) ==
    \/ Generate(i)
    \/ InitializeRandom(i)
    \/ ApplyCellularAutomata(i)
    \/ DetectRooms(i)
    \/ ConnectRoomsBegin(i)
    \/ ConnectRoomsStep(i)
    \/ PlaceSpawns(i)
    \/ PlaceProps(i)

Next == Step(1)

Spec == Init /\ [][Next]_vars

\* Two generator objects constructed with the same seed and parameters, each
\* running generate() at its own pace.
PairSeeds == {5, 76, 133, 200}

PairConfigs == {Construct(s, f, n, m, t) : s \in PairSeeds, f \in FillRatios,
                                           n \in 0 .. MaxSmooth, m \in MinRoomSizes,
                                           t \in WallThresholds}

InitPair ==
    /\ \E c \in PairConfigs : gen = [i \in Instances |-> c]
    /\ returned = [i \in Instances |-> <<>>]
    /\ mesh = NoMesh
    /\ query = NoQuery

NextPair == Step(1) \/ Step(2)

SpecPair == InitPair /\ [][NextPair]_vars

\* One generator object whose caller also passes dimensions that are not
\* positive.
InitDims ==
    /\ \E c \in PairConfigs : gen = [i \in Instances |-> IF i = 1 THEN c ELSE NoGen]
    /\ returned = [i \in Instances |-> <<>>]
    /\ mesh = NoMesh
    /\ query = NoQuery

NextDims == Step(1) \/ GenerateInvalid(1)

SpecDims == InitDims /\ [][NextDims]_vars

\* A generator whose generate(w, h) has returned an all-Wall grid with no
\* rooms (fill ratio 1.0) and whose caller then wrote `cells` with set_cell.
MapWith(w, h, cells) ==
    [Construct(0, 100, 0, 1, 4) EXCEPT !.pc = "done", !.width_ = w, !.height_ = h,
                                       !.cells_ = cells, !.calls = 1,
                                       !.args = <<w, h>>]

CellTypes == {Wall, Floor, Spawn, Prop}

\* The maps handed to MapMesh::generate: every 2x2 grid, every 3x3 grid of
\* Wall and Floor, every 4x4 grid with a Wall border, and the 4x4 grid
\* without any Wall.
MeshMaps ==
    {MapWith(2, 2, c) : c \in [0 .. 3 -> CellTypes]}
      \cup {MapWith(3, 3, c) : c \in [0 .. 8 -> {Wall, Floor}]}
      \cup {MapWith(4, 4, [i \in 0 .. 15 |->
                             IF (i % 4) \in {0, 3} \/ (i \div 4) \in {0, 3} THEN Wall
                             ELSE c[(2 * ((i \div 4) - 1)) + ((i % 4) - 1)]]) :
               c \in [0 .. 3 -> CellTypes]}
      \cup {MapWith(4, 4, [i \in 0 .. 15 |-> Floor])}

\* MapMeshConfig: the defaults of map_mesh.h (heights 4.0, 0.0, 4.0, in
\* half cells) with either value of the two flags.
MeshConfigs ==
    {[wall_height |-> 8, floor_height |-> 0, ceiling_height |-> 8,
      generate_ceiling |-> c, smooth_walls |-> s] : c \in BOOLEAN, s \in BOOLEAN}

InitMesh ==
    /\ \E m \in MeshMaps : gen = [i \in Instances |-> IF i = 1 THEN m ELSE NoGen]
    /\ returned = [i \in Instances |-> <<>>]
    /\ mesh = NoMesh
    /\ query = NoQuery

\* map_mesh.generate(map, config) on a map whose generate() has returned,
\* for at most n calls.
MeshGenerateUpTo(i, n) ==
    /\ gen[i].pc = "done"
    /\ mesh.calls < n
    /\ \E config \in MeshConfigs : mesh' = MapMesh_generate(mesh, gen[i], config)
    /\ UNCHANGED <<gen, returned, query>>

MeshGenerate(i) == MeshGenerateUpTo(i, MaxMeshCalls)

NextMesh == MeshGenerate(1)

SpecMesh == InitMesh /\ [][NextMesh]_vars

\* One MapMesh object meshing a map several times, the caller editing the
\* map with set_cell and destroying the meshes in between.
RemeshMaps == {MapWith(2, 2, c) : c \in [0 .. 3 -> {Wall, Floor}]}

InitRemesh ==
    /\ \E m \in RemeshMaps : gen = [i \in Instances |-> IF i = 1 THEN m ELSE NoGen]
    /\ returned = [i \in Instances |-> <<>>]
    /\ mesh = NoMesh
    /\ query = NoQuery

\* map.set_cell(x, y, type) by the caller, in or out of bounds.
SetCell(i) ==
    /\ gen[i].pc = "done"
    /\ \E x \in -1 .. (gen[i].width_ - 1), y \in 0 .. gen[i].height_, t \in {Wall, Floor} :
          gen' = [gen EXCEPT ![i] = set_cell(gen[i], x, y, t)]
    /\ UNCHANGED <<returned, mesh, query>>

\* map_mesh.destroy().
MeshDestroy ==
    /\ mesh' = MapMesh_destroy(mesh)
    /\ UNCHANGED <<gen, returned, query>>

NextRemesh == MeshGenerateUpTo(1, MaxRemeshCalls) \/ SetCell(1) \/ MeshDestroy

SpecRemesh == InitRemesh /\ [][NextRemesh]_vars

\* A generator after generate(w, h), reduced to what the two conversions
\* read: the grid of w * h cells is not carried.
Sized(w, h) == [pc |-> "done", width_ |-> w, height_ |-> h]

\* Dimensions around 2^24, where an int stops being a float.
HugeDims == {<<16777216, 1>>, <<16777217, 1>>, <<1, 16777217>>, <<3, 16777216>>,
             <<16777218, 1>>, <<1, 16777218>>, <<16777219, 2>>}

InitCoords ==
    /\ \E d \in ((1 .. MaxDim) \X (1 .. MaxDim)) \cup HugeDims :
          gen = [i \in Instances |-> IF i = 1 THEN Sized(d[1], d[2]) ELSE NoGen]
    /\ returned = [i \in Instances |-> <<>>]
    /\ mesh = NoMesh
    /\ query = NoQuery

\* The coordinates asked about along an axis of n cells: all of them on a
\* small grid, the ends and the middle on a huge one.
Asked(n) == IF n <= MaxDim + 1 THEN 0 .. (n - 1)
            ELSE {0, 1, (n \div 2) - 1, n \div 2, n - 3, n - 2, n - 1}

\* cell_to_world(x, y) of a cell of the grid, then world_to_cell of the result.
WorldToCell(i) ==
    /\ gen[i].pc = "done"
    /\ \E x \in Asked(gen[i].width_), y \in Asked(gen[i].height_) :
          query' = [x |-> x, y |-> y, pos |-> cell_to_world(gen[i], x, y),
                    cell |-> world_to_cell(gen[i], cell_to_world(gen[i], x, y))]
    /\ UNCHANGED <<gen, returned, mesh>>

NextCoords == WorldToCell(1)

SpecCoords == InitCoords /\ [][NextCoords]_vars

\* The points, in quarter cells, a quarter cell or less from the centre of
\* the floor quad of cell (x, y) on either axis: the quad's corners are
\* cell_to_world(x, y) -+ half a cell (map_mesh.cpp:72-82), so all nine are
\* strictly inside it.
InsideFloorQuad(g, x, y) ==
    {[x |-> 2 * cell_to_world(g, x, y).x + dx, y |-> 0,
      z |-> 2 * cell_to_world(g, x, y).z + dz] : dx \in -1 .. 1, dz \in -1 .. 1}

InitQuad ==
    /\ \E d \in (1 .. MaxDim) \X (1 .. MaxDim) :
          gen = [i \in Instances |-> IF i = 1 THEN Sized(d[1], d[2]) ELSE NoGen]
    /\ returned = [i \in Instances |-> <<>>]
    /\ mesh = NoMesh
    /\ query = NoQuery

\* world_to_cell of a point on the floor quad of a cell of the grid.
WorldToCellOnQuad(i) ==
    /\ gen[i].pc = "done"
    /\ \E x \in 0 .. (gen[i].width_ - 1), y \in 0 .. (gen[i].height_ - 1) :
          \E p \in InsideFloorQuad(gen[i], x, y) :
              query' = [x |-> x, y |-> y, quarters |-> p,
                        cell |-> world_to_cell_quarters(gen[i], p)]
    /\ UNCHANGED <<gen, returned, mesh>>

NextQuad == WorldToCellOnQuad(1)

SpecQuad == InitQuad /\ [][NextQuad]_vars

\* ---------------------------------------------------------------- claims
\* Floor cells joined to `seen` by 4-connected paths of non-Wall cells.
RECURSIVE FloorReach(_, _, _)
FloorReach(g, frontier, seen) ==
    LET new == {j \in UNION {Adj4(g, k) : k \in frontier} :
                  j \notin seen /\ is_floor(g, CellX(g, j), CellY(g, j))}
    IN  IF new = {} THEN seen ELSE FloorReach(g, new, seen \cup new)

\* There is a 4-connected path of non-Wall cells from cell a to cell b.
FloorPath(g, a, b) ==
    /\ is_floor(g, CellX(g, a), CellY(g, a))
    /\ b \in FloorReach(g, {a}, {a})

RoomIds(g) == 0 .. (Len(g.rooms_) - 1)
Members(g, id) == {i \in Cells(g) : g.room_map[i] = id}
CentroidCell(g, id) == Idx(g, CenterX(Room(g, id)), CenterY(Room(g, id)))

BorderIsWall(g) ==
    \A i \in Cells(g) : IsBorder(g, CellX(g, i), CellY(g, i)) => g.cells_[i] = Wall

Active == {i \in Instances : gen[i].pc # "none"}

\* C1: after every step of generate from the random fill on, and when it
\* returns, every border cell of the grid is Wall.
C1_BorderWallAfterEachStep ==
    \A i \in Active :
        gen[i].pc \in {"apply_cellular_automata", "detect_rooms", "connect_rooms",
                       "place_spawns", "place_props", "done"}
            => BorderIsWall(gen[i])

\* C2: when generate has returned, the centroid cells of any two different
\* rooms are joined by a 4-connected path of non-Wall cells.
C2_CentroidsConnected ==
    \A i \in Active :
        gen[i].pc = "done" =>
            \A a, b \in RoomIds(gen[i]) :
                a # b => FloorPath(gen[i], CentroidCell(gen[i], a), CentroidCell(gen[i], b))

C2_Witness ==
    \E i \in Active :
        /\ gen[i].pc = "done"
        /\ Len(gen[i].rooms_) >= 3
        /\ \E a \in RoomIds(gen[i]) : CentroidCell(gen[i], a) \notin Members(gen[i], a)

\* C3: once connect_rooms is over, every member cell of every room is joined
\* to every member cell of every other room by a path of non-Wall cells.
C3_RoomsMutuallyReachable ==
    \A i \in Active :
        gen[i].pc \in {"place_spawns", "place_props", "done"} =>
            \A a, b \in RoomIds(gen[i]) :
                a # b => \A m \in Members(gen[i], a) :
                            Members(gen[i], b) \subseteq FloorReach(gen[i], {m}, {m})

\* The grid cell a world position was computed from.
CellOfPosition(g, pos) ==
    CHOOSE c \in (0 .. g.width_) \X (0 .. g.height_) :
        cell_to_world(g, c[1], c[2]) = pos

\* C4: when generate has returned, every spawn point's cell is a non-Wall
\* cell whose eight neighbours are all inside the grid and non-Wall.
C4_SpawnsInOpenSpace ==
    \A i \in Active :
        gen[i].pc = "done" =>
            \A k \in 1 .. Len(gen[i].spawns_) :
                LET c == CellOfPosition(gen[i], gen[i].spawns_[k].position)
                IN  /\ is_floor(gen[i], c[1], c[2])
                    /\ \A d \in Moore8 :
                          /\ in_bounds(gen[i], c[1] + d[1], c[2] + d[2])
                          /\ ~is_wall(gen[i], c[1] + d[1], c[2] + d[2])

C4_Witness ==
    \E i \in Active :
        /\ gen[i].pc = "done"
        /\ Len(gen[i].rooms_) >= 2
        /\ Len(gen[i].spawns_) >= 2
        /\ Len(gen[i].props_) >= 1

\* C5: every spawn point's cell is a member cell of the component detected
\* as rooms[room_id].
C5_SpawnInItsRoom ==
    \A i \in Active :
        gen[i].pc = "done" =>
            \A k \in 1 .. Len(gen[i].spawns_) :
                LET c == CellOfPosition(gen[i], gen[i].spawns_[k].position)
                IN  Idx(gen[i], c[1], c[2]) \in Members(gen[i], gen[i].spawns_[k].room_id)

\* The number of the four axis-aligned neighbours of (x, y) that are inside
\* the grid and not Wall.
AxisFloorNeighbours(g, x, y) ==
    Cardinality({d \in {<<-1, 0>>, <<1, 0>>, <<0, -1>>, <<0, 1>>} :
                   /\ in_bounds(g, x + d[1], y + d[2])
                   /\ get_cell(g, x + d[1], y + d[2]) # Wall})

\* C6: when generate has returned, the source cell of every prop, wall prop
\* or column, has at least two axis-aligned neighbours that are floor cells.
C6_PropsLeaveTwoFloors ==
    \A i \in Active :
        gen[i].pc = "done" =>
            \A k \in 1 .. Len(gen[i].props_) :
                LET c == CellOfPosition(gen[i], gen[i].props_[k].position)
                IN  AxisFloorNeighbours(gen[i], c[1], c[2]) >= 2

C6_Witness ==
    \E i \in Active :
        /\ gen[i].pc = "done"
        /\ \E k \in 1 .. Len(gen[i].props_) :
              LET c == CellOfPosition(gen[i], gen[i].props_[k].position)
              IN  AxisFloorNeighbours(gen[i], c[1], c[2]) = 2

\* The generation parameters of a generator object.
Params(g) == <<g.seed_, g.fill_ratio_, g.smoothing_iterations_, g.min_room_size_,
               g.wall_threshold_>>

\* C7: two freshly constructed generators with the same seed and parameters,
\* asked for the same width and height, leave identical grids, room lists,
\* spawn lists and prop lists after their first generate call.
C7_SameSeedSameOutput ==
    \A i, j \in Active :
        (/\ Params(gen[i]) = Params(gen[j])
         /\ returned[i] # <<>> /\ returned[j] # <<>>
         /\ returned[i][1].width = returned[j][1].width
         /\ returned[i][1].height = returned[j][1].height)
            => returned[i][1] = returned[j][1]

C7_Witness ==
    /\ Active = Instances
    /\ \A i \in Instances : returned[i] # <<>>
    /\ Len(returned[1][1].rooms) >= 2
    /\ returned[1][1].spawns # <<>>
    /\ returned[2][1].props # <<>>

\* C8: a second generate call on the same generator, with the same width and
\* height, leaves the same grid, rooms, spawns and props as the first call.
C8_SecondCallSameAsFirst ==
    \A i \in Active :
        (/\ Len(returned[i]) >= 2
         /\ returned[i][2].width = returned[i][1].width
         /\ returned[i][2].height = returned[i][1].height)
            => returned[i][2] = returned[i][1]

\* C9: when generate has returned a non-empty room list, exactly one room is
\* flagged main, no room has a larger area, and every room before it in the
\* list is strictly smaller.
C9_MainIsFirstLargest ==
    \A i \in Active :
        (gen[i].pc = "done" /\ gen[i].rooms_ # <<>>) =>
            \E m \in RoomIds(gen[i]) :
                /\ \A r \in RoomIds(gen[i]) : Room(gen[i], r).is_main <=> r = m
                /\ \A r \in RoomIds(gen[i]) : Room(gen[i], r).area <= Room(gen[i], m).area
                /\ \A r \in RoomIds(gen[i]) :
                      r < m => Room(gen[i], r).area < Room(gen[i], m).area

C9_Witness ==
    \E i \in Active :
        /\ gen[i].pc = "done"
        /\ \E a, b \in RoomIds(gen[i]) :
              /\ 0 < a /\ a < b
              /\ Room(gen[i], a).is_main
              /\ Room(gen[i], b).area = Room(gen[i], a).area

\* A cell that is not Wall and has no Wall or out-of-grid Moore neighbour.
OpenCell(g, c) ==
    /\ get_cell(g, CellX(g, c), CellY(g, c)) # Wall
    /\ \A d \in Moore8 :
          /\ in_bounds(g, CellX(g, c) + d[1], CellY(g, c) + d[2])
          /\ get_cell(g, CellX(g, c) + d[1], CellY(g, c) + d[2]) # Wall

\* C10: when generate has returned there are at most min(4, number of rooms)
\* spawn points, no two of them carry the same room_id, and a room none of
\* whose cells is free of Wall neighbours has no spawn point.
C10_SpawnsPerRoom ==
    \A i \in Active :
        gen[i].pc = "done" =>
            /\ Len(gen[i].spawns_) <= Min2(4, Len(gen[i].rooms_))
            /\ \A k, l \in 1 .. Len(gen[i].spawns_) :
                  k # l => gen[i].spawns_[k].room_id # gen[i].spawns_[l].room_id
            /\ \A r \in RoomIds(gen[i]) :
                  (\A c \in Members(gen[i], r) : ~OpenCell(gen[i], c)) =>
                      \A k \in 1 .. Len(gen[i].spawns_) : gen[i].spawns_[k].room_id # r

\* No 4-connected component of non-Wall cells has min_room_size cells.
NoRoomSized(g) ==
    \A c \in Cells(g) :
        get_cell(g, CellX(g, c), CellY(g, c)) # Wall =>
            Cardinality(FloorReach(g, {c}, {c})) < g.min_room_size_

\* No rooms, no spawns, no props, every cell Wall.
Degenerate(g) ==
    /\ g.rooms_ = <<>> /\ g.spawns_ = <<>> /\ g.props_ = <<>>
    /\ \A c \in Cells(g) : g.cells_[c] = Wall

\* C11: if, when room detection starts, no floor component reaches
\* min_room_size cells, the same generate call runs to its end and leaves
\* the room, spawn and prop lists empty and every cell Wall.
C11_NoRoomsIsAllWall ==
    \A i \in Instances : \A n \in 1 .. (MaxCalls + 1) :
        []((gen[i].pc = "detect_rooms" /\ gen[i].calls = n /\ NoRoomSized(gen[i]))
              => []((gen[i].pc = "done" /\ gen[i].calls = n) => Degenerate(gen[i])))

C11_Witness ==
    \E i \in Active :
        /\ gen[i].pc = "done"
        /\ gen[i].calls = 2
        /\ returned[i][1].rooms # <<>>
        /\ gen[i].min_room_size_ > 1
        /\ Degenerate(gen[i])

\* What the generator held before its current (or latest) generate call.
BeforeCall(i) ==
    IF gen[i].calls = 1
    THEN [width |-> 0, height |-> 0, cells |-> <<>>,
          rooms |-> <<>>, spawns |-> <<>>, props |-> <<>>]
    ELSE returned[i][gen[i].calls - 1]

\* C12: during and after a generate call whose width or height is not
\* positive, the dimensions, grid, rooms, spawns and props are those the
\* generator held before the call.
C12_InvalidDimsRejected ==
    \A i \in Active :
        (gen[i].calls >= 1 /\ (gen[i].args[1] <= 0 \/ gen[i].args[2] <= 0))
            => Output(gen[i]) = BeforeCall(i)

\* The map the mesh was generated from.
Map == gen[1]

Meshed == mesh.calls >= 1

Smoothed == Meshed /\ mesh.config.smooth_walls

\* The base line <<start, end>> of each wall quad, as <<x, z>> pairs.
WallSegments ==
    [k \in 1 .. (Len(mesh.built.wall.vertices) \div 4) |->
        <<<<mesh.built.wall.vertices[4 * k - 3].position.x,
            mesh.built.wall.vertices[4 * k - 3].position.z>>,
          <<mesh.built.wall.vertices[4 * k - 2].position.x,
            mesh.built.wall.vertices[4 * k - 2].position.z>>>>]

\* The 2x2 blocks of the map, by top-left cell.
Blocks == {b \in (0 .. (Map.width_ - 2)) \X (0 .. (Map.height_ - 2)) : TRUE}

\* Bit 1 = top-left, 2 = top-right, 4 = bottom-left, 8 = bottom-right is Wall.
WallBits(b) ==
    (IF Map.cells_[Idx(Map, b[1], b[2])] = Wall THEN 1 ELSE 0)
      + (IF Map.cells_[Idx(Map, b[1] + 1, b[2])] = Wall THEN 2 ELSE 0)
      + (IF Map.cells_[Idx(Map, b[1], b[2] + 1)] = Wall THEN 4 ELSE 0)
      + (IF Map.cells_[Idx(Map, b[1] + 1, b[2] + 1)] = Wall THEN 8 ELSE 0)

\* The midpoint between the centres of two cells, as an <<x, z>> pair.
MidOf(x1, y1, x2, y2) ==
    <<(cell_to_world(Map, x1, y1).x + cell_to_world(Map, x2, y2).x) \div 2,
      (cell_to_world(Map, x1, y1).z + cell_to_world(Map, x2, y2).z) \div 2>>

\* The four edge midpoints n, s, w, e of a block.
EdgeMidpoints(b) ==
    {MidOf(b[1], b[2], b[1] + 1, b[2]), MidOf(b[1], b[2] + 1, b[1] + 1, b[2] + 1),
     MidOf(b[1], b[2], b[1], b[2] + 1), MidOf(b[1] + 1, b[2], b[1] + 1, b[2] + 1)}

\* The segments lying in block b: both ends among its edge midpoints.
SegmentsOf(b) ==
    {k \in DOMAIN WallSegments :
        WallSegments[k][1] \in EdgeMidpoints(b) /\ WallSegments[k][2] \in EdgeMidpoints(b)}

\* C13: in smoothed mode every wall segment runs between two different edge
\* midpoints of one 2x2 block, and a block holds no segment when its four
\* cells are all Floor or all Wall (0, 15), two when it is a saddle (6, 9)
\* and exactly one otherwise.
C13_SegmentsPerConfiguration ==
    Smoothed =>
        /\ \A k \in DOMAIN WallSegments :
              /\ WallSegments[k][1] # WallSegments[k][2]
              /\ \E b \in Blocks : k \in SegmentsOf(b)
        /\ \A b \in Blocks :
              Cardinality(SegmentsOf(b)) =
                  (IF WallBits(b) \in {0, 15} THEN 0
                   ELSE IF WallBits(b) \in {6, 9} THEN 2 ELSE 1)

C13_Witness ==
    /\ Smoothed
    /\ \E b \in Blocks : WallBits(b) = 6 /\ Cardinality(SegmentsOf(b)) = 2
    /\ \E b \in Blocks : WallBits(b) = 9 /\ Cardinality(SegmentsOf(b)) = 2
    /\ \E b \in Blocks : WallBits(b) \in {1, 2, 4, 8} /\ Cardinality(SegmentsOf(b)) = 1

\* The midpoints between two 4-adjacent cells of the map of which exactly
\* one is Wall.
MixedMidpoints ==
    {MidOf(CellX(Map, p[1]), CellY(Map, p[1]), CellX(Map, p[2]), CellY(Map, p[2])) :
        p \in {q \in Cells(Map) \X Cells(Map) :
                 /\ Abs(CellX(Map, q[1]) - CellX(Map, q[2]))
                      + Abs(CellY(Map, q[1]) - CellY(Map, q[2])) = 1
                 /\ (Map.cells_[q[1]] = Wall) # (Map.cells_[q[2]] = Wall)}}

\* How many segment ends lie at point m.
EndsAt(m) ==
    Cardinality({e \in (DOMAIN WallSegments) \X {1, 2} : WallSegments[e[1]][e[2]] = m})

\* C14: in smoothed mode, on a map whose border cells are all Wall, every
\* segment end is the midpoint between two 4-adjacent cells exactly one of
\* which is Wall, and every such midpoint is the end of exactly two segments.
C14_ContourWatertight ==
    (Smoothed /\ BorderIsWall(Map)) =>
        /\ \A k \in DOMAIN WallSegments :
              WallSegments[k][1] \in MixedMidpoints /\ WallSegments[k][2] \in MixedMidpoints
        /\ \A m \in MixedMidpoints : EndsAt(m) = 2

C14_Witness ==
    /\ Smoothed
    /\ BorderIsWall(Map)
    /\ \E b \in Blocks : WallBits(b) \in {6, 9}
    /\ Cardinality(MixedMidpoints) = 8
    /\ \A m \in MixedMidpoints : EndsAt(m) = 2

\* math.h cross and dot, on integer vectors.
Cross(a, b) == V3(a.y * b.z - a.z * b.y, a.z * b.x - a.x * b.z, a.x * b.y - a.y * b.x)

Dot(a, b) == a.x * b.x + a.y * b.y + a.z * b.z

Minus(a, b) == V3(a.x - b.x, a.y - b.y, a.z - b.z)

Sign(n) == IF n > 0 THEN 1 ELSE IF n < 0 THEN -1 ELSE 0

\* For every triangle of geometry b and each of its three vertices, the sign
\* of dot(cross(p1 - p0, p2 - p0), normal).
WindingSigns(b) ==
    {Sign(Dot(Cross(Minus(b.vertices[b.indices[3 * t - 1] + 1].position,
                          b.vertices[b.indices[3 * t - 2] + 1].position),
                    Minus(b.vertices[b.indices[3 * t] + 1].position,
                          b.vertices[b.indices[3 * t - 2] + 1].position)),
              b.vertices[b.indices[3 * t - j] + 1].normal)) :
        t \in 1 .. (Len(b.indices) \div 3), j \in 0 .. 2}

\* The ceiling geometry of the last call, none when the ceiling is not built.
CeilingBuilt == IF mesh.config.generate_ceiling THEN mesh.built.ceiling ELSE NoGeometry

\* C15: the triangles of the floor, ceiling and wall geometry all have the
\* same sign of dot(cross(p1 - p0, p2 - p0), normal).
C15_WindingConsistent ==
    Meshed =>
        Cardinality(WindingSigns(mesh.built.floor) \cup WindingSigns(mesh.built.wall)
                      \cup WindingSigns(CeilingBuilt)) <= 1

\* The Floor, Spawn and Prop cells of the map, in row-major order.
RECURSIVE OpenCellsFrom(_)
OpenCellsFrom(i) ==
    IF i >= Map.width_ * Map.height_ THEN <<>>
    ELSE (IF Map.cells_[i] \in {Floor, Spawn, Prop} THEN <<i>> ELSE <<>>)
           \o OpenCellsFrom(i + 1)

OpenCells == OpenCellsFrom(0)

\* Geometry b is one quad per cell of OpenCells, in that order, at height
\* y: 4 vertices and 6 indices each, the six indices of a quad among its own
\* four vertices, and the four vertices the corners of the cell's square.
OneQuadPerOpenCell(b, y) ==
    /\ Len(b.vertices) = 4 * Len(OpenCells)
    /\ Len(b.indices) = 6 * Len(OpenCells)
    /\ (b.vertices # <<>>) <=> (Len(OpenCells) >= 1)
    /\ \A q \in 1 .. Len(OpenCells) :
          /\ \A j \in 1 .. 6 : b.indices[6 * (q - 1) + j] \in (4 * (q - 1)) .. (4 * (q - 1) + 3)
          /\ {b.vertices[4 * (q - 1) + j].position : j \in 1 .. 4} =
                {V3(cell_to_world(Map, CellX(Map, OpenCells[q]), CellY(Map, OpenCells[q])).x + dx,
                    y,
                    cell_to_world(Map, CellX(Map, OpenCells[q]), CellY(Map, OpenCells[q])).z + dz) :
                   dx \in {-1, 1}, dz \in {-1, 1}}

\* C16: the floor geometry is exactly one quad per Floor, Spawn or Prop cell
\* and none for a Wall cell (4N vertices, 6N indices, every quad indexing
\* its own four vertices, non-empty exactly when N >= 1), and the ceiling
\* geometry, when built, has one quad for each of the same cells.
C16_OneQuadPerFloorCell ==
    Meshed =>
        /\ OneQuadPerOpenCell(mesh.built.floor, mesh.config.floor_height)
        /\ mesh.config.generate_ceiling =>
              OneQuadPerOpenCell(mesh.built.ceiling, mesh.config.ceiling_height)

C16_Witness ==
    /\ Meshed
    /\ mesh.config.generate_ceiling
    /\ \E a \in Cells(Map), b \in Cells(Map), c \in Cells(Map), d \in Cells(Map) :
          /\ Map.cells_[a] = Spawn /\ Map.cells_[b] = Prop
          /\ Map.cells_[c] = Floor /\ Map.cells_[d] = Wall
    /\ Len(mesh.built.floor.vertices) = 12
    /\ Len(mesh.built.ceiling.indices) = 18

\* Every cell of the map has type t.
Uniform(t) == \A c \in Cells(Map) : Map.cells_[c] = t

\* C17: for a map whose cells are all Wall, and for a map whose cells are
\* all Floor, the wall geometry is empty, whichever wall mode is used.
C17_UniformMapHasNoWalls ==
    (Meshed /\ (Uniform(Wall) \/ Uniform(Floor))) =>
        mesh.built.wall.vertices = <<>> /\ mesh.built.wall.indices = <<>>

\* The largest width or height whose every cell index is a float: 2^24 + 1.
MaxExactDim == Pow(2, 24) + 1

\* C18 as stated: world_to_cell(cell_to_world(x, y)) = (x, y) for every
\* width and height >= 1 and every cell of the grid.
C18_RoundTripAnySize ==
    query # NoQuery => query.cell = <<query.x, query.y>>

\* C18, amended: world_to_cell(cell_to_world(x, y)) = (x, y) for every cell
\* of a grid whose width and height are between 1 and 2^24 + 1, even or odd.
C18_RoundTripExact ==
    (query # NoQuery /\ gen[1].width_ <= MaxExactDim /\ gen[1].height_ <= MaxExactDim) =>
        query.cell = <<query.x, query.y>>

C18_Witness ==
    /\ query # NoQuery
    /\ gen[1].width_ = MaxExactDim
    /\ query.x = MaxExactDim - 1
    /\ query.pos.x > 0
    /\ query.cell = <<query.x, query.y>>

\* The number of the eight neighbours of cell c that are Wall in grid g, a
\* neighbour outside the grid counting as Wall.
MooreWalls(g, c) ==
    Cardinality({d \in Moore8 :
        LET x == CellX(g, c) + d[1]
            y == CellY(g, c) + d[2]
        IN  IF x < 0 \/ x >= g.width_ \/ y < 0 \/ y >= g.height_ THEN TRUE
            ELSE g.cells_[y * g.width_ + x] = Wall})

\* Cell c after a pass over grid g.
Smoothed1(g, c) ==
    IF IsBorder(g, CellX(g, c), CellY(g, c)) THEN g.cells_[c]
    ELSE IF MooreWalls(g, c) > g.wall_threshold_ THEN Wall
    ELSE IF MooreWalls(g, c) < g.wall_threshold_ THEN Floor
    ELSE g.cells_[c]

\* C19: one smoothing pass gives every cell the value the rule yields on the
\* grid as it was before the pass: an interior cell becomes Wall when more
\* than wall_threshold_ of its eight neighbours were Wall (outside the grid
\* counts as Wall), Floor when fewer were, keeps its value when exactly
\* that many were; a border cell keeps its value.
C19_SmoothingReadsOldGrid ==
    [][\A i \in Instances :
          (gen[i].pc = "apply_cellular_automata" /\ gen'[i] # gen[i]) =>
              \A c \in Cells(gen[i]) : gen'[i].cells_[c] = Smoothed1(gen[i], c)]_vars

\* The grid of the first call as the random fill left it.
FirstFill(g) ==
    initialize_random(generate_begin(
        Construct(g.seed_, g.fill_ratio_, g.smoothing_iterations_, g.min_room_size_,
                  g.wall_threshold_), g.width_, g.height_))

\* One pass is over; it turned a Floor cell into Wall and a Wall cell into
\* Floor, and a cell that had a Wall cell after it in scan order among its
\* neighbours, itself about to change, kept its value on a tie.
C19_Witness ==
    \E i \in Active :
        /\ gen[i].calls = 1 /\ gen[i].pc = "detect_rooms" /\ gen[i].iter = 1
        /\ LET old == FirstFill(gen[i])
           IN  /\ \E a \in Cells(gen[i]) : old.cells_[a] = Floor /\ gen[i].cells_[a] = Wall
               /\ \E c \in Cells(gen[i]) :
                     /\ ~IsBorder(gen[i], CellX(gen[i], c), CellY(gen[i], c))
                     /\ old.cells_[c + 1] = Wall /\ gen[i].cells_[c + 1] = Floor
                     /\ gen[i].cells_[c] = old.cells_[c]
                     /\ MooreWalls(old, c) = gen[i].wall_threshold_

\* The 4-connected components of the non-Wall cells of grid g.
Components(g) ==
    {FloorReach(g, {c}, {c}) : c \in {d \in Cells(g) : g.cells_[d] # Wall}}

\* The place of component C among the components of set S, by first cell
\* in row-major order.
RankOf(S, C) == 1 + Cardinality({D \in S : SetMin(D) < SetMin(C)})

\* Room r is component C of grid g: its area is the number of cells of C
\* and its box the smallest one around them.
RoomIs(g, r, C) ==
    LET xs == {CellX(g, c) : c \in C}
        ys == {CellY(g, c) : c \in C}
    IN  /\ r.area = Cardinality(C)
        /\ r.x = SetMin(xs) /\ r.width = SetMax(xs) - SetMin(xs) + 1
        /\ r.y = SetMin(ys) /\ r.height = SetMax(ys) - SetMin(ys) + 1

\* C20: detect_rooms leaves one room per 4-connected floor component of at
\* least min_room_size_ cells, in row-major order of the components' first
\* cells: the room's cells are the component's (so no two rooms share a
\* cell), its area is their number, its box is the smallest one around
\* them; the cells of every smaller component are Wall afterwards and no
\* other cell changes.
C20_RoomsAreComponents ==
    [][\A i \in Instances :
          (gen[i].pc = "detect_rooms" /\ gen'[i] # gen[i]) =>
              LET all == Components(gen[i])
                  big == {C \in all : Cardinality(C) >= gen[i].min_room_size_}
                  small == UNION (all \ big)
              IN  /\ Len(gen'[i].rooms_) = Cardinality(big)
                  /\ \A C \in big :
                        /\ RoomIs(gen[i], gen'[i].rooms_[RankOf(big, C)], C)
                        /\ \A c \in Cells(gen[i]) :
                              (gen'[i].room_map[c] = RankOf(big, C) - 1) <=> (c \in C)
                  /\ \A c \in Cells(gen[i]) :
                        gen'[i].cells_[c] = IF c \in small THEN Wall ELSE gen[i].cells_[c]]_vars

\* detect_rooms has run in a first call with at most one smoothing pass:
\* it kept two rooms or more, one of them not a full rectangle, and walled
\* up a smaller component.
C20_Witness ==
    \E i \in Active :
        /\ gen[i].calls = 1 /\ gen[i].pc = "connect_rooms"
        /\ gen[i].smoothing_iterations_ <= 1 /\ gen[i].min_room_size_ > 1
        /\ Len(gen[i].rooms_) >= 2
        /\ \E k \in 1 .. Len(gen[i].rooms_) :
              gen[i].rooms_[k].area < gen[i].rooms_[k].width * gen[i].rooms_[k].height
        /\ LET before == IF gen[i].smoothing_iterations_ = 0 THEN FirstFill(gen[i])
                         ELSE apply_cellular_automata(FirstFill(gen[i]))
           IN  \E c \in Cells(gen[i]) : before.cells_[c] = Floor /\ gen[i].cells_[c] = Wall

\* ------------------------------------------------------- C21
\* The pairs the search of one iteration ranges over.
CandidatePairs(g) == {p \in RoomIds(g) \X RoomIds(g) :
                        p[1] \in g.connected /\ p[2] \notin g.connected}

\* Pair p comes before pair q in the order of the two loops.
PairBefore(p, q) == p[1] < q[1] \/ (p[1] = q[1] /\ p[2] < q[2])

\* n1 / d1 < n2 / d2 for naturals with d1, d2 > 0, by continued fractions.
RECURSIVE FracLess(_, _, _, _)
FracLess(n1, d1, n2, d2) ==
    IF n1 \div d1 # n2 \div d2 THEN n1 \div d1 < n2 \div d2
    ELSE IF n2 % d2 = 0 THEN FALSE
    ELSE IF n1 % d1 = 0 THEN TRUE
    ELSE FracLess(d2, n2 % d2, d1, n1 % d1)

\* The squared distance between the centroids of rooms p[1] and p[2] as the
\* fraction num / den of integers, from the rooms' member cells.
CentroidDist2(g, p) ==
    LET A == Members(g, p[1])
        B == Members(g, p[2])
        ca == Cardinality(A)
        cb == Cardinality(B)
        dx == SumOver(A, g, TRUE, g.width_ - 1) * cb - SumOver(B, g, TRUE, g.width_ - 1) * ca
        dy == SumOver(A, g, FALSE, g.height_ - 1) * cb - SumOver(B, g, FALSE, g.height_ - 1) * ca
    IN  [num |-> dx * dx + dy * dy, den |-> ca * cb * ca * cb]

CentroidLess(g, p, q) ==
    LET a == CentroidDist2(g, p)
        b == CentroidDist2(g, q)
    IN  FracLess(a.num, a.den, b.num, b.den)

\* The pair an iteration of connect_rooms has just carved.
Carved(g, h) == h.corridors[Len(h.corridors)]

ConnectIteration(i) == gen[i].pc = "connect_loop" /\ gen'[i] # gen[i]

\* C21 as stated, over the centroids themselves: each iteration of
\* connect_rooms carves the corridor of the connected/unconnected pair whose
\* squared centroid distance is least, the first such pair in index order
\* on ties; room 0 alone is connected at the start.
C21_NearestPairExact ==
    [][\A i \in Instances :
          ConnectIteration(i) =>
              LET best == Carved(gen[i], gen'[i])
              IN  /\ best \in CandidatePairs(gen[i])
                  /\ \A q \in CandidatePairs(gen[i]) :
                        /\ ~CentroidLess(gen[i], q, best)
                        /\ PairBefore(q, best) => CentroidLess(gen[i], best, q)]_vars

\* C21: each iteration of connect_rooms carves the corridor of the
\* connected/unconnected pair whose squared distance, computed in float from
\* the rooms' float centres as the code computes it, is least, the first
\* such pair in index order when several compute the same value; the first
\* iteration starts from room 0 alone; the pair's second room is the one
\* marked connected.
C21_NearestPairAsComputed ==
    [][\A i \in Instances :
          ConnectIteration(i) =>
              LET best == Carved(gen[i], gen'[i])
              IN  /\ gen[i].corridors = <<>> => gen[i].connected = {0}
                  /\ Len(gen'[i].corridors) = Len(gen[i].corridors) + 1
                  /\ best \in CandidatePairs(gen[i])
                  /\ gen'[i].connected = gen[i].connected \cup {best[2]}
                  /\ \A q \in CandidatePairs(gen[i]) :
                        /\ ~DistLess(gen[i], q, best)
                        /\ PairBefore(q, best) => DistLess(gen[i], best, q)]_vars

\* An iteration has carved the first of two candidate pairs that computed
\* the same, least, distance, from a connected set of two rooms or more.
C21_Witness ==
    \E i \in Active :
        /\ gen[i].corridors # <<>>
        /\ LET best == gen[i].corridors[Len(gen[i].corridors)]
               prev == [gen[i] EXCEPT !.connected = @ \ {best[2]}]
           IN  /\ Cardinality(prev.connected) >= 2
               /\ \E q \in CandidatePairs(prev) :
                     /\ q # best /\ PairBefore(best, q)
                     /\ ~DistLess(prev, best, q) /\ ~DistLess(prev, q, best)

\* ------------------------------------------------------- C22
Unconnected(g) == RoomIds(g) \ g.connected

\* C22: connect_rooms terminates: with fewer than two rooms it carves
\* nothing and changes no cell; with n >= 2 rooms every iteration marks
\* exactly one room that was not connected and carves exactly one corridor,
\* so the number of unconnected rooms falls by one each time, and the loop
\* is left exactly when n - 1 corridors are carved and every room is
\* connected.
C22_ConnectTerminates ==
    [][\A i \in Instances :
          /\ (gen[i].pc = "connect_rooms" /\ gen'[i] # gen[i]) =>
                IF Len(gen[i].rooms_) < 2
                THEN /\ gen'[i].pc = "place_spawns"
                     /\ gen'[i].corridors = <<>>
                     /\ gen'[i].cells_ = gen[i].cells_
                     /\ gen'[i].rng_ = gen[i].rng_
                ELSE /\ gen'[i].pc = "connect_loop"
                     /\ gen'[i].corridors = <<>>
                     /\ Cardinality(Unconnected(gen'[i])) = Len(gen[i].rooms_) - 1
                     /\ gen'[i].cells_ = gen[i].cells_
          /\ ConnectIteration(i) =>
                /\ gen[i].connected \subseteq gen'[i].connected
                /\ Cardinality(gen'[i].connected \ gen[i].connected) = 1
                /\ gen'[i].connected \subseteq RoomIds(gen[i])
                /\ Cardinality(Unconnected(gen'[i])) = Cardinality(Unconnected(gen[i])) - 1
                /\ Len(gen'[i].corridors) = Len(gen[i].corridors) + 1
                /\ gen'[i].rooms_ = gen[i].rooms_
                /\ gen'[i].pc \in {"connect_loop", "place_spawns"}
                /\ (gen'[i].pc = "place_spawns") <=> (Unconnected(gen'[i]) = {})
                /\ (gen'[i].pc = "place_spawns") <=>
                       (Len(gen'[i].corridors) = Len(gen[i].rooms_) - 1)]_vars

\* connect_rooms has returned after joining three rooms or more with one
\* corridor fewer than there are rooms.
C22_Witness ==
    \E i \in Active :
        /\ gen[i].pc = "place_spawns"
        /\ Len(gen[i].rooms_) >= 3
        /\ Len(gen[i].corridors) = Len(gen[i].rooms_) - 1
        /\ gen[i].connected = RoomIds(gen[i])

\* ------------------------------------------------------- C23
\* The cells at perpendicular offset -2 .. +2 from the horizontal leg on
\* row y between columns xa and xb.
AlongRow(xa, xb, y) ==
    {c \in (Min2(xa, xb) .. Max2(xa, xb)) \X ((y - 2) .. (y + 2)) : TRUE}

\* The cells at perpendicular offset -2 .. +2 from the vertical leg on
\* column x between rows ya and yb.
AlongColumn(x, ya, yb) ==
    {c \in ((x - 2) .. (x + 2)) \X (Min2(ya, yb) .. Max2(ya, yb)) : TRUE}

\* The grid h is the grid g with the in-bounds cells of `band` set to Floor.
CarvedExactly(g, h, band) ==
    /\ DOMAIN h.cells_ = DOMAIN g.cells_
    /\ \A c \in Cells(g) :
          h.cells_[c] = IF <<CellX(g, c), CellY(g, c)>> \in band THEN Floor
                        ELSE g.cells_[c]

\* C23: create_corridor sets to Floor exactly the in-bounds cells at offset
\* -2 .. +2 from an L-shaped path between the truncated centroids of rooms a
\* and b: the horizontal leg on a's centroid row then the vertical leg on
\* b's centroid column when the draw is 0, the vertical leg on a's centroid
\* column then the horizontal leg on b's centroid row otherwise; every
\* other cell keeps its value, no cell becomes Wall and the grid keeps its
\* size.
C23_CorridorBand ==
    [][\A i \in Instances :
          ConnectIteration(i) =>
              LET best == Carved(gen[i], gen'[i])
                  a == Room(gen[i], best[1])
                  b == Room(gen[i], best[2])
                  x0 == CenterX(a)
                  y0 == CenterY(a)
                  x1 == CenterX(b)
                  y1 == CenterY(b)
                  rowFirst == AlongRow(x0, x1, y0) \cup AlongColumn(x1, y0, y1)
                  columnFirst == AlongColumn(x0, y0, y1) \cup AlongRow(x0, x1, y1)
              IN  /\ CarvedExactly(gen[i], gen'[i],
                        IF UniformInt(gen[i].rng_, 0, 1) = 0 THEN rowFirst ELSE columnFirst)
                  /\ \A c \in Cells(gen[i]) :
                        gen'[i].cells_[c] = Wall => gen[i].cells_[c] = Wall]_vars

\* The first corridor of a call is carved between rooms whose truncated
\* centroids differ in both coordinates: a cell outside every room became
\* Floor, part of the band fell outside the grid, and a Wall cell is left.
C23_Witness ==
    \E i \in Active :
        /\ Len(gen[i].corridors) = 1
        /\ LET best == gen[i].corridors[1]
               a == Room(gen[i], best[1])
               b == Room(gen[i], best[2])
           IN  /\ CenterX(a) # CenterX(b) /\ CenterY(a) # CenterY(b)
               /\ \E c \in Cells(gen[i]) :
                     gen[i].room_map[c] = -1 /\ gen[i].cells_[c] = Floor
               /\ \E c \in Cells(gen[i]) :
                     ~IsBorder(gen[i], CellX(gen[i], c), CellY(gen[i], c))
                     /\ gen[i].cells_[c] = Wall
               /\ \E p \in AlongRow(CenterX(a), CenterX(b), CenterY(a))
                           \cup AlongColumn(CenterX(a), CenterY(a), CenterY(b)) :
                     ~in_bounds(gen[i], p[1], p[2])

\* ------------------------------------------------------- C24
\* The four axis directions as <<dx, dy>>: north, south, west, east.
AxisDirs == {<<0, -1>>, <<0, 1>>, <<-1, 0>>, <<1, 0>>}

\* The faces simple mode has to close: a floor cell c and a direction in
\* which its neighbour is Wall (a neighbour outside the grid reads as Wall).
WallFaces ==
    {f \in Cells(Map) \X AxisDirs :
        /\ is_floor(Map, CellX(Map, f[1]), CellY(Map, f[1]))
        /\ is_wall(Map, CellX(Map, f[1]) + f[2][1], CellY(Map, f[1]) + f[2][2])}

\* The two ends, as <<x, z>> pairs, of the edge cell c shares with its
\* neighbour in direction d.
SharedEdge(c, d) ==
    LET world == cell_to_world(Map, CellX(Map, c), CellY(Map, c))
    IN  IF d[1] = 0
        THEN {<<world.x - 1, world.z + d[2]>>, <<world.x + 1, world.z + d[2]>>}
        ELSE {<<world.x + d[1], world.z - 1>>, <<world.x + d[1], world.z + 1>>}

\* Wall quad k stands on the edge of face f from the floor height to the
\* wall height above it, and its four normals are side * (direction of f).
QuadOnFace(k, f, side) ==
    LET v == [n \in 1 .. 4 |-> mesh.built.wall.vertices[4 * (k - 1) + n]]
        fy == mesh.config.floor_height
        top == mesh.config.floor_height + mesh.config.wall_height
    IN  /\ {<<v[1].position.x, v[1].position.z>>, <<v[2].position.x, v[2].position.z>>}
              = SharedEdge(f[1], f[2])
        /\ v[1].position.y = fy /\ v[2].position.y = fy
        /\ v[3].position = [v[2].position EXCEPT !.y = top]
        /\ v[4].position = [v[1].position EXCEPT !.y = top]
        /\ \A n \in 1 .. 4 :
              v[n].normal = [x |-> side * f[2][1], y |-> 0, z |-> side * f[2][2],
                             len2 |-> 1]

\* One quad per face and no other quad, every normal on the given side.
SimpleWallsFace(side) ==
    /\ Len(mesh.built.wall.vertices) = 4 * Cardinality(WallFaces)
    /\ \A f \in WallFaces :
          Cardinality({k \in 1 .. (Len(mesh.built.wall.vertices) \div 4) :
                          QuadOnFace(k, f, side)}) = 1

\* C24 as stated: in simple wall mode every floor cell gets exactly one
\* vertical quad on the edge it shares with each axis neighbour that is
\* Wall, and the quad's normal points from the floor cell toward that
\* neighbour.
C24_SimpleWallsFaceAway ==
    (Meshed /\ ~mesh.config.smooth_walls) => SimpleWallsFace(1)

\* ------------------------------------------------------- C28
HasFloorCell(g) == \E c \in Cells(g) : is_floor(g, CellX(g, c), CellY(g, c))

\* The step is a MapMesh::generate call.
GenerateCall == mesh'.op = "generate" /\ mesh'.calls = mesh.calls + 1

\* C28: after each MapMesh::generate call on one object, whatever the
\* earlier calls were, has_floor() holds exactly when the grid of that call
\* has a floor cell, has_walls() exactly when that call's wall builder
\* emitted a quad, and has_ceiling() exactly when that call asked for a
\* ceiling and the grid has a floor cell.
C28_HasReportsLatestCall ==
    [][GenerateCall =>
          /\ has_floor(mesh') <=> HasFloorCell(gen[1])
          /\ has_walls(mesh') <=> (mesh'.built.wall.vertices # <<>>)
          /\ has_ceiling(mesh') <=>
                (mesh'.config.generate_ceiling /\ HasFloorCell(gen[1]))]_vars

\* ------------------------------------------------------- C29
\* C29: after MapMesh::destroy() has returned, has_floor(), has_walls() and
\* has_ceiling() are all false.
C29_DestroyedHasNothing ==
    mesh.op = "destroy" => ~has_floor(mesh) /\ ~has_walls(mesh) /\ ~has_ceiling(mesh)

\* ------------------------------------------------------- C25
\* The cells next to wall quad k of geometry b, a ring outside the grid
\* included, with twice the offset from the middle of the quad's base line
\* to the cell's centre: at most 3 quarter cells either way.
NearCells(g, b, k) ==
    LET mx == b.vertices[4 * k - 3].position.x + b.vertices[4 * k - 2].position.x
        mz == b.vertices[4 * k - 3].position.z + b.vertices[4 * k - 2].position.z
    IN  {c \in ((-1) .. g.width_) \X ((-1) .. g.height_) :
            /\ Abs(2 * (2 * c[1] - g.width_) - mx) <= 3
            /\ Abs(2 * (2 * c[2] - g.height_) - mz) <= 3}

\* The sign of normal . (centre of cell c - middle of the base line).
Ahead(g, b, k, c) ==
    LET mx == b.vertices[4 * k - 3].position.x + b.vertices[4 * k - 2].position.x
        mz == b.vertices[4 * k - 3].position.z + b.vertices[4 * k - 2].position.z
        n == b.vertices[4 * k - 3].normal
    IN  Sign(n.x * (2 * (2 * c[1] - g.width_) - mx) + n.z * (2 * (2 * c[2] - g.height_) - mz))

\* "floor" when the normal of wall quad k points to the floor side of the
\* boundary the quad stands on, "wall" when it points to the Wall side: the
\* side is read off the cells ahead when they are all of one kind, off the
\* cells behind otherwise.
FacingOf(g, b, k) ==
    LET front == {c \in NearCells(g, b, k) : Ahead(g, b, k, c) = 1}
        back == {c \in NearCells(g, b, k) : Ahead(g, b, k, c) = -1}
        frontWall == \A c \in front : is_wall(g, c[1], c[2])
        frontFloor == \A c \in front : is_floor(g, c[1], c[2])
    IN  IF frontWall \/ frontFloor
        THEN (IF frontFloor THEN "floor" ELSE "wall")
        ELSE (IF \A c \in back : is_wall(g, c[1], c[2]) THEN "floor" ELSE "wall")

\* The sides the wall quads of the last generate call face.
Facings ==
    IF mesh.calls = 0 THEN {}
    ELSE {FacingOf(mesh.map, mesh.built.wall, k) :
             k \in 1 .. (Len(mesh.built.wall.vertices) \div 4)}

\* C25: wall normals are oriented uniformly: the wall quads of one generate
\* call, smoothed or simple, all face the same side of their Wall/floor
\* boundary, and the same side as the wall quads of the call before on the
\* same object, so switching smooth_walls never flips a wall.
C25_WallsFaceOneSide ==
    [][Cardinality(Facings \cup Facings') <= 1]_vars

\* ------------------------------------------------------- C26
\* C26: no two spawn points of one generate call are on the same cell.
C26_SpawnCellsDistinct ==
    \A i \in Active :
        gen[i].pc \in {"place_props", "done"} =>
            \A j, k \in 1 .. Len(gen[i].spawns_) :
                j # k => CellOfPosition(gen[i], gen[i].spawns_[j].position)
                           # CellOfPosition(gen[i], gen[i].spawns_[k].position)

\* ------------------------------------------------------- C27
\* C27: when generate has returned, the cell of every spawn point is still
\* tagged Spawn.
C27_SpawnCellsStayTagged ==
    \A i \in Active :
        gen[i].pc = "done" =>
            \A k \in 1 .. Len(gen[i].spawns_) :
                LET c == CellOfPosition(gen[i], gen[i].spawns_[k].position)
                IN  get_cell(gen[i], c[1], c[2]) = Spawn

\* ------------------------------------------------------- C30
\* C30: world_to_cell of a point strictly inside the floor quad of an
\* in-bounds cell (x, y) is (x, y).
C30_QuadPointsMapToCell ==
    (query # NoQuery /\ "quarters" \in DOMAIN query) =>
        query.cell = <<query.x, query.y>>

====
